---- MODULE Spec2Model ----
(***************************************************************************)
(* A model of dotask_bot: the task repository (database/crud.py), the      *)
(* listing keyboard (bot/keyboards/listing.py) and the chat handlers       *)
(* (bot/handlers/*.py) that drive it.                                      *)
(*                                                                         *)
(* Conventions.                                                            *)
(*  - An Optional[x] of the code is a sequence of length <= 1: None is     *)
(*    <<>> and a present value x is <<x>>.                                 *)
(*  - An instant is an integer number of minutes; the clock `now` only     *)
(*    moves forward (action Tick).                                         *)
(*  - A Python str that the code parses (callback data) is a sequence of   *)
(*    one-character strings, so that split/startswith/int are computed.    *)
(***************************************************************************)
EXTENDS Integers, Sequences, FiniteSets, TLC

VARIABLES
    tasks,      \* table `tasks`: task id -> row (committed state)
    nextId,     \* next autoincrement primary key of `tasks`
    now,        \* the clock read by _utcnow()
    last,       \* the last repository call: its name, arguments and result
    res,        \* the last result of a pure listing function (clamp, fetch)
    users,      \* table `users`: telegram id -> row (SpecUser: id -> whole row)
    fsm,        \* aiogram FSM storage: telegram id -> [state, data]
    out,        \* what the handler of the last update did
    sessions    \* create_or_update_user calls in flight: session -> what it read

vars == <<tasks, nextId, now, last, res, users, fsm, out, sessions>>

\* the variables the repository calls on `tasks` leave alone
botVars == <<users, fsm, out, sessions>>

\* ------------------------------------------------------------------ bounds
MaxUsers == 2
MaxTasks == 1
MaxNow == 1
MaxTg == 1
MaxDue == 4
MaxRows == 7
MaxPage == 4
MaxPer == 3

\* ------------------------------------------------------- program constants
CONTENT_MAX == 255
CONTENT_MIN == 3
PER_PAGE == 5
MIN_PER_DAY == 1440
DAYS_PER_WEEK == 7
EPOCH_WEEKDAY == 3

\* ------------------------------------------------------------ basic values
None == <<>>
Some(x) == <<x>>
IsSome(o) == Len(o) = 1
Val(o) == o[1]

Min(a, b) == IF a <= b THEN a ELSE b
Max(a, b) == IF a >= b THEN a ELSE b

Users == 1..MaxUsers
TgUsers == 1..MaxTg
TaskIds == 1..MaxTasks
TaskPriority == {"HIGH", "MEDIUM", "LOW"}

\* Contents offered to the repository (already text; see the handlers for
\* what they let through).
Contents == { <<"a", "b", "c">>, <<"x", "y", "z", "w">>, <<" ", "a", " ">>, <<"a", "b">> }

\* A datetime argument: wall-clock minutes and an optional UTC offset
\* (None = naive).
DueInputs == { None, Some([wall |-> 1, off |-> None]), Some([wall |-> 3, off |-> Some(1)]) }

\* ------------------------------------------------------------- crud helpers
\* _utcnow
_utcnow == now

\* _ensure_utc: None stays None; a naive datetime is taken to be UTC already;
\* an aware one is converted to the same instant in UTC.
_ensure_utc(dt) ==
    IF dt = None THEN None
    ELSE IF Val(dt).off = None THEN Some(Val(dt).wall)
    ELSE Some(Val(dt).wall - Val(Val(dt).off))

\* _coerce_positive_int(val, default, minimum=1) for an Optional[int] val
_coerce_positive_int(val, default) ==
    Max(1, IF val = None THEN default ELSE Val(val))

\* content[:255]
Truncate(c, n) == SubSeq(c, 1, Min(Len(c), n))

\* The WHERE clause of every mutation: Task.id == task_id, Task.user_id == user_id
WhereIdOnly(ts, task_id, user_id) == task_id \in DOMAIN ts
WhereIdUser(ts, task_id, user_id) ==
    task_id \in DOMAIN ts /\ ts[task_id].user_id = user_id

\* UPDATE tasks SET <vals> WHERE id = task_id AND user_id = user_id
\* vals is a function from column names to new values.  Returns the table
\* and the rowcount.
UpdateWhere(ts, task_id, user_id, vals) ==
    IF WhereIdUser(ts, task_id, user_id)
    THEN [tbl |-> [ts EXCEPT ![task_id] =
                        [c \in DOMAIN ts[task_id] |->
                            IF c \in DOMAIN vals THEN vals[c] ELSE ts[task_id][c]]],
          rowcount |-> 1]
    ELSE [tbl |-> ts, rowcount |-> 0]

\* DELETE FROM tasks WHERE id = task_id AND user_id = user_id
DeleteWhere(ts, task_id, user_id) ==
    IF WhereIdUser(ts, task_id, user_id)
    THEN [tbl |-> [i \in DOMAIN ts \ {task_id} |-> ts[i]], rowcount |-> 1]
    ELSE [tbl |-> ts, rowcount |-> 0]

\* ------------------------------------------------- repository operations
\* Each returns [tbl, ret]: the table after the call and the value returned.

\* create_task: the new row (its id comes from the autoincrement key)
NewTask(user_id, content, due_date, priority, t) ==
    [user_id |-> user_id,
     content |-> Truncate(content, CONTENT_MAX),
     due_date |-> _ensure_utc(due_date),
     priority |-> priority,
     is_done |-> FALSE,
     created_at |-> t,
     updated_at |-> t,
     done_at |-> None]

\* models.py, CHECK (length(content) >= 3) on `tasks`: the database refuses
\* an INSERT or UPDATE that leaves a shorter content (IntegrityError)
tasks_content_minlen(content) == Len(content) >= CONTENT_MIN

\* raised: session.flush() raised, no row was inserted
create_task(ts, id, user_id, content, due_date, priority, t) ==
    IF tasks_content_minlen(Truncate(content, CONTENT_MAX))
    THEN [tbl |-> [i \in DOMAIN ts \cup {id} |->
                     IF i = id THEN NewTask(user_id, content, due_date, priority, t)
                     ELSE ts[i]],
          ret |-> id, raised |-> FALSE]
    ELSE [tbl |-> ts, ret |-> 0, raised |-> TRUE]

\* set_task_done: the value written to done_at
DoneAtAlwaysNow(done, t) == Some(t)
DoneAtValue(done, t) == IF done THEN Some(t) ELSE None

set_task_done(ts, user_id, task_id, done, t) ==
    LET r == UpdateWhere(ts, task_id, user_id,
                 [is_done |-> done, done_at |-> DoneAtValue(done, t), updated_at |-> t])
    IN [tbl |-> r.tbl, ret |-> r.rowcount > 0]

delete_task_by_id(ts, user_id, task_id) ==
    LET r == DeleteWhere(ts, task_id, user_id)
    IN [tbl |-> r.tbl, ret |-> r.rowcount > 0]

\* raised: session.execute() raised on a row the WHERE clause selects
update_task_content_uncut(ts, user_id, task_id, new_content, t) ==
    IF /\ WhereIdUser(ts, task_id, user_id)
       /\ ~tasks_content_minlen(new_content)
    THEN [tbl |-> ts, ret |-> FALSE, raised |-> TRUE]
    ELSE LET r == UpdateWhere(ts, task_id, user_id,
                      [content |-> new_content, updated_at |-> t])
         IN [tbl |-> r.tbl, ret |-> r.rowcount > 0, raised |-> FALSE]
update_task_content(ts, user_id, task_id, new_content, t) ==
    IF /\ WhereIdUser(ts, task_id, user_id)
       /\ ~tasks_content_minlen(Truncate(new_content, CONTENT_MAX))
    THEN [tbl |-> ts, ret |-> FALSE, raised |-> TRUE]
    ELSE LET r == UpdateWhere(ts, task_id, user_id,
                      [content |-> Truncate(new_content, CONTENT_MAX), updated_at |-> t])
         IN [tbl |-> r.tbl, ret |-> r.rowcount > 0, raised |-> FALSE]

set_task_priority(ts, user_id, task_id, priority, t) ==
    LET r == UpdateWhere(ts, task_id, user_id, [priority |-> priority, updated_at |-> t])
    IN [tbl |-> r.tbl, ret |-> r.rowcount > 0]

set_task_due_date(ts, user_id, task_id, due_date, t) ==
    LET r == UpdateWhere(ts, task_id, user_id,
                 [due_date |-> _ensure_utc(due_date), updated_at |-> t])
    IN [tbl |-> r.tbl, ret |-> r.rowcount > 0]

\* snooze_task_by_id: SELECT the row, then UPDATE it with due_date =
\* (due_date or now) + minutes; False when the SELECT finds nothing.
SNOOZE_DEFAULT == 15

\* a base that ignores the stored due date
SnoozeBase_always_now(row, t) == t

SnoozeBase(row, t) == IF row.due_date = None THEN t ELSE Val(row.due_date)

SnoozeNewDue(row, delta_minutes, t) ==
    SnoozeBase(row, t) + _coerce_positive_int(Some(delta_minutes), SNOOZE_DEFAULT)

snooze_task_by_id(ts, user_id, task_id, delta_minutes, t) ==
    IF ~WhereIdUser(ts, task_id, user_id)
    THEN [tbl |-> ts, ret |-> FALSE]
    ELSE LET r == UpdateWhere(ts, task_id, user_id,
                     [due_date |-> Some(SnoozeNewDue(ts[task_id], delta_minutes, t)),
                      updated_at |-> t])
         IN [tbl |-> r.tbl, ret |-> r.rowcount > 0]

\* ------------------------------------------------------------------------
\* Specification Spec: the repository driven directly, any caller, any task id
\* ------------------------------------------------------------------------
SnoozeDeltas == {0, 2}

\* raised: the call raised instead of returning
Call(op, user_id, task_id, arg, ret) ==
    [op |-> op, user_id |-> user_id, task_id |-> task_id, arg |-> arg, ret |-> ret,
     raised |-> FALSE]

Raise(call, raised) == [call EXCEPT !.raised = raised]

NoCall == Call("none", 0, 0, None, FALSE)

NoRes == [op |-> "none", out |-> None]

\* FSM storage of a chat with no state set and no data (after state.clear())
NoFsm == [state |-> "none", data |-> <<>>]

\* no update handled yet
NoOut ==
    [handler |-> "none", kind |-> "none", tg |-> 0, data |-> <<>>, trace |-> <<>>,
     escaped |-> FALSE, again |-> FALSE]

BotIdle ==
    /\ users = <<>>
    /\ fsm = [u \in TgUsers |-> NoFsm]
    /\ out = NoOut
    /\ sessions = <<>>

Init ==
    /\ tasks = <<>>
    /\ nextId = 1
    /\ now = 0
    /\ last = NoCall
    /\ res = NoRes
    /\ BotIdle

Tick ==
    /\ now < MaxNow
    /\ now' = now + 1
    /\ UNCHANGED <<tasks, nextId, last, res>>
    /\ UNCHANGED botVars

CreateTask(user_id, content, due_date, priority) ==
    /\ nextId <= MaxTasks
    /\ LET r == create_task(tasks, nextId, user_id, content, due_date, priority, _utcnow)
       IN /\ tasks' = r.tbl
          /\ last' = Raise(Call("create_task", user_id, r.ret, Some(content), ~r.raised),
                           r.raised)
          /\ nextId' = IF r.raised THEN nextId ELSE nextId + 1
    /\ UNCHANGED <<now, res>>
    /\ UNCHANGED botVars

SetTaskDone(user_id, task_id, done) ==
    /\ LET r == set_task_done(tasks, user_id, task_id, done, _utcnow)
       IN /\ tasks' = r.tbl
          /\ last' = Call("set_task_done", user_id, task_id, Some(done), r.ret)
    /\ UNCHANGED <<nextId, now, res>>
    /\ UNCHANGED botVars

DeleteTaskById(user_id, task_id) ==
    /\ LET r == delete_task_by_id(tasks, user_id, task_id)
       IN /\ tasks' = r.tbl
          /\ last' = Call("delete_task_by_id", user_id, task_id, None, r.ret)
    /\ UNCHANGED <<nextId, now, res>>
    /\ UNCHANGED botVars

UpdateTaskContent(user_id, task_id, new_content) ==
    /\ LET r == update_task_content(tasks, user_id, task_id, new_content, _utcnow)
       IN /\ tasks' = r.tbl
          /\ last' = Raise(Call("update_task_content", user_id, task_id,
                                Some(new_content), r.ret), r.raised)
    /\ UNCHANGED <<nextId, now, res>>
    /\ UNCHANGED botVars

SnoozeTaskById(user_id, task_id, delta_minutes) ==
    /\ WhereIdUser(tasks, task_id, user_id) =>
          SnoozeNewDue(tasks[task_id], delta_minutes, _utcnow) <= MaxDue
    /\ LET r == snooze_task_by_id(tasks, user_id, task_id, delta_minutes, _utcnow)
       IN /\ tasks' = r.tbl
          /\ last' = Call("snooze_task_by_id", user_id, task_id, Some(delta_minutes), r.ret)
    /\ UNCHANGED <<nextId, now, res>>
    /\ UNCHANGED botVars

SetTaskPriority(user_id, task_id, priority) ==
    /\ LET r == set_task_priority(tasks, user_id, task_id, priority, _utcnow)
       IN /\ tasks' = r.tbl
          /\ last' = Call("set_task_priority", user_id, task_id, Some(priority), r.ret)
    /\ UNCHANGED <<nextId, now, res>>
    /\ UNCHANGED botVars

SetTaskDueDate(user_id, task_id, due_date) ==
    /\ LET r == set_task_due_date(tasks, user_id, task_id, due_date, _utcnow)
       IN /\ tasks' = r.tbl
          /\ last' = Call("set_task_due_date", user_id, task_id, due_date, r.ret)
    /\ UNCHANGED <<nextId, now, res>>
    /\ UNCHANGED botVars

Next ==
    \/ Tick
    \/ \E u \in Users, c \in Contents, d \in DueInputs, p \in TaskPriority :
          CreateTask(u, c, d, p)
    \/ \E u \in Users, i \in TaskIds, b \in BOOLEAN : SetTaskDone(u, i, b)
    \/ \E u \in Users, i \in TaskIds : DeleteTaskById(u, i)
    \/ \E u \in Users, i \in TaskIds, c \in Contents : UpdateTaskContent(u, i, c)
    \/ \E u \in Users, i \in TaskIds, m \in SnoozeDeltas : SnoozeTaskById(u, i, m)
    \/ \E u \in Users, i \in TaskIds, p \in TaskPriority : SetTaskPriority(u, i, p)
    \/ \E u \in Users, i \in TaskIds, d \in DueInputs : SetTaskDueDate(u, i, d)

Spec == Init /\ [][Next]_vars

\* ------------------------------------------------------------------------
\* Claims about the repository (checked under Spec)
\* ------------------------------------------------------------------------
MutatingOps ==
    {"set_task_done", "delete_task_by_id", "update_task_content",
     "snooze_task_by_id", "set_task_priority", "set_task_due_date"}

\* A step is a repository call exactly when the clock stands still: Tick is
\* the only action that moves it, and it leaves `last` alone.
IsCallStep == now' = now

\* The call recorded in `last` addressed a row that exists and belongs to
\* somebody else.
TargetsForeignRow(c, ts) ==
    /\ c.op \in MutatingOps
    /\ c.task_id \in DOMAIN ts
    /\ ts[c.task_id].user_id # c.user_id

\* C1 -- Ownership isolation: a mutating repository call (set_task_done,
\* delete_task_by_id, update_task_content, snooze_task_by_id,
\* set_task_priority, set_task_due_date) with (task_id, user_id) where the
\* task exists but belongs to another user returns False and leaves every
\* field of that row as it was.
C1_OwnershipIsolation ==
    [][ (IsCallStep /\ TargetsForeignRow(last', tasks))
            => /\ last'.ret = FALSE
               /\ last'.task_id \in DOMAIN tasks'
               /\ tasks'[last'.task_id] = tasks[last'.task_id] ]_vars

\* C1 witness: a snooze was addressed to another user's task and refused.
C1_Witness ==
    /\ last.op = "snooze_task_by_id"
    /\ TargetsForeignRow(last, tasks)
    /\ last.ret = FALSE

\* C2 -- In every reachable state of the store every task has done_at set
\* if and only if is_done is true.
C2_DoneAtIffDone ==
    \A i \in DOMAIN tasks : (tasks[i].done_at # None) <=> tasks[i].is_done

\* C2 witness: a task was un-marked by its owner (after having been marked
\* done at some earlier call, so that done_at had to be cleared).
C2_Witness ==
    /\ last.op = "set_task_done"
    /\ last.arg = Some(FALSE)
    /\ last.ret = TRUE
    /\ last.task_id \in DOMAIN tasks
    /\ tasks[last.task_id].is_done = FALSE
    /\ tasks[last.task_id].updated_at > tasks[last.task_id].created_at

\* The call in `c` is set_task_done(done=True) that affected a row.
IsDoneTrueCall(c) ==
    /\ c.op = "set_task_done"
    /\ c.arg = Some(TRUE)
    /\ c.ret = TRUE

\* C3 -- Done idempotence: set_task_done(done=True) called twice in a row on
\* an owned task leaves is_done = True, returns True, and the second call
\* keeps the done_at written by the first.  (A step that repeats the call in
\* `last` while the clock stands still is that second call.)
C3_DoneTwiceKeepsDoneAt ==
    [][ (IsCallStep /\ IsDoneTrueCall(last) /\ last' = last
            /\ last.task_id \in DOMAIN tasks)
            => /\ last.task_id \in DOMAIN tasks'
               /\ tasks'[last.task_id].is_done = TRUE
               /\ tasks'[last.task_id].done_at = tasks[last.task_id].done_at ]_vars

\* the step is snooze_task_by_id with a delta of at least one minute
IsSnoozeStep ==
    /\ IsCallStep
    /\ last'.op = "snooze_task_by_id"
    /\ Val(last'.arg) >= 1

\* C14 -- Snooze arithmetic: snooze_task_by_id with m >= 1 on an owned task
\* sets due_date to (due_date + m) when the task has one and to (now + m)
\* when it has none, changes nothing else but updated_at, and returns True;
\* on a task that does not exist or is not the caller's it returns False and
\* changes nothing.
C14_SnoozeArithmetic ==
    [][ IsSnoozeStep =>
          IF WhereIdUser(tasks, last'.task_id, last'.user_id)
          THEN /\ last'.ret = TRUE
               /\ DOMAIN tasks' = DOMAIN tasks
               /\ tasks'[last'.task_id].due_date =
                     Some((IF tasks[last'.task_id].due_date = None THEN now
                           ELSE Val(tasks[last'.task_id].due_date)) + Val(last'.arg))
               /\ \A i \in DOMAIN tasks : \A col \in DOMAIN tasks[i] :
                     (i # last'.task_id \/ col \notin {"due_date", "updated_at"})
                         => tasks'[i][col] = tasks[i][col]
          ELSE /\ last'.ret = FALSE
               /\ tasks' = tasks ]_vars

\* C14 witness: a task whose due date was already set was snoozed by its
\* owner by 2 minutes at time 1 and is now due at 4.
C14_Witness ==
    /\ last.op = "snooze_task_by_id" /\ last.arg = Some(2) /\ last.ret = TRUE
    /\ now = 1
    /\ last.task_id \in DOMAIN tasks
    /\ tasks[last.task_id].user_id = last.user_id
    /\ tasks[last.task_id].due_date = Some(4)
    /\ tasks[last.task_id].updated_at = 1

\* ------------------------------------------------------------------------
\* Listing: get_tasks_paginated, pagination clamp, _fetch_page
\* ------------------------------------------------------------------------
\* one-character codes of the callback schema, as Python strs
S_o == <<"o">>
S_d == <<"d">>
C_A == <<"A">>
C_H == <<"H">>
C_M == <<"M">>
C_L == <<"L">>
C_T == <<"T">>
C_W == <<"W">>
C_O == <<"O">>
C_N == <<"N">>

\* str.upper() on ASCII letters
LowerChars == <<"a", "b", "c", "d", "e", "f", "g", "h", "i", "j", "k", "l", "m",
                "n", "o", "p", "q", "r", "s", "t", "u", "v", "w", "x", "y", "z">>
UpperChars == <<"A", "B", "C", "D", "E", "F", "G", "H", "I", "J", "K", "L", "M",
                "N", "O", "P", "Q", "R", "S", "T", "U", "V", "W", "X", "Y", "Z">>
UpperChar(ch) ==
    IF \E k \in 1..Len(LowerChars) : LowerChars[k] = ch
    THEN UpperChars[CHOOSE k \in 1..Len(LowerChars) : LowerChars[k] = ch]
    ELSE ch
Upper(str) == [k \in 1..Len(str) |-> UpperChar(str[k])]

\* _priority_from_code: 'H'/'M'/'L' (any case) -> TaskPriority, otherwise None
_priority_from_code(code) ==
    LET u == Upper(code)
    IN CASE u = C_H -> Some("HIGH")
         [] u = C_M -> Some("MEDIUM")
         [] u = C_L -> Some("LOW")
         [] OTHER -> None

\* now_utc.replace(hour=0, minute=0, second=0, microsecond=0)
StartOfDay(t) == t - (t % MIN_PER_DAY)
\* now_utc.weekday(): Monday = 0; instant 0 is a Thursday
Weekday(t) == ((t \div MIN_PER_DAY) + EPOCH_WEEKDAY) % DAYS_PER_WEEK

DueIn(row, start, end) ==
    /\ row.due_date # None
    /\ Val(row.due_date) >= start
    /\ Val(row.due_date) < end

\* (a variant whose overdue filter takes a task due at this very instant)
DateCond_due_now_is_overdue(row, date_filter, now_utc) ==
    CASE date_filter = C_T ->
            DueIn(row, StartOfDay(now_utc), StartOfDay(now_utc) + MIN_PER_DAY)
      [] date_filter = C_W ->
            LET start == StartOfDay(now_utc) - Weekday(now_utc) * MIN_PER_DAY
            IN DueIn(row, start, start + DAYS_PER_WEEK * MIN_PER_DAY)
      [] date_filter = C_O -> row.due_date # None /\ Val(row.due_date) <= now_utc
      [] date_filter = C_N -> row.due_date = None
      [] OTHER -> TRUE

\* the date condition appended to conds
DateCond(row, date_filter, now_utc) ==
    CASE date_filter = C_T ->
            DueIn(row, StartOfDay(now_utc), StartOfDay(now_utc) + MIN_PER_DAY)
      [] date_filter = C_W ->
            LET start == StartOfDay(now_utc) - Weekday(now_utc) * MIN_PER_DAY
            IN DueIn(row, start, start + DAYS_PER_WEEK * MIN_PER_DAY)
      [] date_filter = C_O -> row.due_date # None /\ Val(row.due_date) < now_utc
      [] date_filter = C_N -> row.due_date = None
      [] OTHER -> TRUE

\* and_(*conds): is_done is an Optional[bool]
Conds(row, user_id, is_done, prio_filter, date_filter, now_utc) ==
    /\ row.user_id = user_id
    /\ (is_done # None => row.is_done = Val(is_done))
    /\ (_priority_from_code(prio_filter) # None =>
            row.priority = Val(_priority_from_code(prio_filter)))
    /\ DateCond(row, date_filter, now_utc)

\* ORDER BY is_done ASC, due_date IS NULL ASC, due_date ASC NULLS LAST,
\* created_at DESC: a strict order on the sort key.
KeyBefore(a, b) ==
    IF a.is_done # b.is_done THEN b.is_done
    ELSE IF (a.due_date = None) # (b.due_date = None) THEN b.due_date = None
    ELSE IF a.due_date # None /\ Val(a.due_date) # Val(b.due_date)
         THEN Val(a.due_date) < Val(b.due_date)
    ELSE a.created_at > b.created_at

\* Rows with equal sort keys come in an order SQL leaves to the engine; the
\* engine's choice is an argument (tb) of every query, drawn from TieBreaks.
TieBreaks == {"id_asc", "id_desc"}

RowBefore(ts, i, j, tb) ==
    \/ KeyBefore(ts[i], ts[j])
    \/ /\ ~KeyBefore(ts[j], ts[i])
       /\ IF tb = "id_asc" THEN i < j ELSE i > j

\* the ids of S in query order
Ordered(ts, S, tb) ==
    [k \in 1..Cardinality(S) |->
        CHOOSE i \in S : Cardinality({j \in S : RowBefore(ts, j, i, tb)}) = k - 1]

\* .offset(offset).limit(limit)
OffsetLimit(seq, offset, limit) ==
    SubSeq(seq, offset + 1, Min(Len(seq), offset + limit))

\* get_tasks_paginated -> (rows, total); rows are given by their ids
get_tasks_paginated(ts, user_id, is_done, prio_filter, date_filter, page, per_page, now_utc, tb) ==
    LET pg == _coerce_positive_int(Some(page), 1)
        pp == _coerce_positive_int(Some(per_page), 5)
        M == {i \in DOMAIN ts :
                Conds(ts[i], user_id, is_done, prio_filter, date_filter, now_utc)}
        offset == (pg - 1) * pp
    IN [rows |-> OffsetLimit(Ordered(ts, M, tb), offset, pp),
        total |-> Cardinality(M)]

\* ceil(a / b) for a >= 0, b >= 1
Ceil(a, b) == (a + b - 1) \div b

\* total_pages = max(1, ceil(max(0, total) / max(1, per_page)))
TotalPages(per_page, total) == Max(1, Ceil(Max(0, total), Max(1, per_page)))

\* keyboards/listing.py _clamp_page
_clamp_page_no_floor(page, per_page, total) ==
    Min(IF page = 0 THEN 1 ELSE page, TotalPages(per_page, total))
_clamp_page(page, per_page, total) ==
    Max(1, Min(Max(1, IF page = 0 THEN 1 ELSE page), TotalPages(per_page, total)))

\* handlers/list_tasks.py _page_counter -> (page, total_pages, label)
_page_counter(page, per_page, total) ==
    [page |-> Max(1, Min(page, TotalPages(per_page, total))),
     total_pages |-> TotalPages(per_page, total)]

\* (a variant that never filters by status)
StatusIsDone_any(status) == None

\* _fetch_page: status -> is_done
StatusIsDone(status) ==
    IF status = S_o THEN Some(FALSE)
    ELSE IF status = S_d THEN Some(TRUE)
    ELSE None

\* _fetch_page: whether the corrective second query is issued
NeedsRefetch_never(rows, page, fixed_page) == FALSE
NeedsRefetch(rows, page, fixed_page) ==
    Len(rows) = 0 /\ page > 1 /\ fixed_page # page

\* _fetch_page -> (tasks, total, final_page); `queries` counts the calls of
\* get_tasks_paginated; tb1 and tb2 are the engine's tie-breaks in each.
_fetch_page(ts, db_user_id, status, page, prio_filter, date_filter, now_utc, tb1, tb2) ==
    LET is_done == StatusIsDone(status)
        q1 == get_tasks_paginated(ts, db_user_id, is_done, prio_filter, date_filter,
                                  page, PER_PAGE, now_utc, tb1)
        fixed_page == Max(1, _page_counter(page, PER_PAGE, q1.total).total_pages)
        q2 == get_tasks_paginated(ts, db_user_id, is_done, prio_filter, date_filter,
                                  fixed_page, PER_PAGE, now_utc, tb2)
    IN IF NeedsRefetch(q1.rows, page, fixed_page)
       THEN [tasks |-> q2.rows, total |-> q2.total, page |-> fixed_page, queries |-> 2]
       ELSE [tasks |-> q1.rows, total |-> q1.total, page |-> page, queries |-> 1]

\* ------------------------------------------------------------------------
\* Python str operations on sequences of characters
\* ------------------------------------------------------------------------
DigitChars == <<"0", "1", "2", "3", "4", "5", "6", "7", "8", "9">>

IsDigit(ch) == \E k \in 1..10 : DigitChars[k] = ch
DigitVal(ch) == (CHOOSE k \in 1..10 : DigitChars[k] = ch) - 1

\* str(n) for an int n
RECURSIVE NatToStr(_)
NatToStr(n) ==
    IF n < 10 THEN <<DigitChars[n + 1]>>
    ELSE NatToStr(n \div 10) \o <<DigitChars[(n % 10) + 1]>>
IntToStr(n) == IF n < 0 THEN <<"-">> \o NatToStr(0 - n) ELSE NatToStr(n)

\* str.strip() (the only whitespace of the alphabet is the space)
RECURSIVE LStrip(_)
LStrip(str) == IF Len(str) > 0 /\ str[1] = " " THEN LStrip(Tail(str)) ELSE str
RECURSIVE RStrip(_)
RStrip(str) ==
    IF Len(str) > 0 /\ str[Len(str)] = " " THEN RStrip(SubSeq(str, 1, Len(str) - 1)) ELSE str
Strip(str) == RStrip(LStrip(str))

RECURSIVE DigitsVal(_)
DigitsVal(str) ==
    IF Len(str) = 0 THEN 0
    ELSE DigitsVal(SubSeq(str, 1, Len(str) - 1)) * 10 + DigitVal(str[Len(str)])

\* int(str): surrounding whitespace and one sign are accepted, then digits
\* only; anything else raises ValueError (None here).
ParseInt(str) ==
    LET t == Strip(str)
        signed == Len(t) > 0 /\ t[1] \in {"+", "-"}
        ds == IF signed THEN Tail(t) ELSE t
    IN IF Len(ds) = 0 \/ \E k \in 1..Len(ds) : ~IsDigit(ds[k]) THEN None
       ELSE IF signed /\ t[1] = "-" THEN Some(0 - DigitsVal(ds))
       ELSE Some(DigitsVal(ds))

\* str.startswith(prefix)
StartsWith(str, prefix) ==
    Len(str) >= Len(prefix) /\ SubSeq(str, 1, Len(prefix)) = prefix

\* position of the first sep in str, 0 when there is none
FirstIndex(str, sep) ==
    IF \E k \in 1..Len(str) : str[k] = sep
    THEN CHOOSE k \in 1..Len(str) : str[k] = sep /\ \A j \in 1..(k - 1) : str[j] # sep
    ELSE 0

\* str.split(sep, maxsplit) for a one-character sep; maxsplit < 0: no limit
RECURSIVE Split(_, _, _)
Split(str, sep, maxsplit) ==
    LET k == FirstIndex(str, sep)
    IN IF maxsplit = 0 \/ k = 0 THEN <<str>>
       ELSE <<SubSeq(str, 1, k - 1)>>
                \o Split(SubSeq(str, k + 1, Len(str)), sep, maxsplit - 1)

\* ------------------------------------------------------------------------
\* Callback-data codec
\* ------------------------------------------------------------------------
\* keyboards/listing.py _CB_MAX
CB_MAX == 64

\* ";s=" etc.
Kv(key, v) == <<";", key, "=">> \o v

\* keyboards/listing.py _join_kv: the data, or an AssertionError (raised)
\* when it is longer than _CB_MAX (assertions enabled: __debug__).
_join_kv(prefix, s, p, f, d) ==
    LET data == prefix \o Kv("s", s) \o Kv("p", IntToStr(p)) \o Kv("f", f) \o Kv("d", d)
    IN [data |-> data, raised |-> Len(data) > CB_MAX]

\* handlers/list_tasks.py _parse_kv: chunks without "=" (or empty) are
\* skipped, a later key overwrites an earlier one.
KvChunks(str) ==
    IF FirstIndex(str, ";") = 0 THEN <<>>
    ELSE LET rest == Split(str, ";", 1)[2]
         IN IF Len(rest) = 0 THEN <<>> ELSE Split(rest, ";", 0 - 1)

RECURSIVE KvOf(_, _)
KvOf(chunks, acc) ==
    IF Len(chunks) = 0 THEN acc
    ELSE LET chunk == chunks[1]
         IN IF Len(chunk) = 0 \/ FirstIndex(chunk, "=") = 0
            THEN KvOf(Tail(chunks), acc)
            ELSE LET kv == Split(chunk, "=", 1)
                 IN KvOf(Tail(chunks),
                         [k \in DOMAIN acc \cup {kv[1]} |->
                             IF k = kv[1] THEN kv[2] ELSE acc[k]])

_parse_kv(str) ==
    [head |-> Split(str, ";", 1)[1], kv |-> KvOf(KvChunks(str), <<>>)]

\* dict.get(key, default); keys are strs
KvGet(kv, key, default) == IF key \in DOMAIN kv THEN kv[key] ELSE default

\* handlers/list_tasks.py _safe_int
_safe_int(v, default) ==
    IF ParseInt(v) = None THEN default
    ELSE IF Val(ParseInt(v)) > 0 THEN Val(ParseInt(v)) ELSE default

\* handlers/list_tasks.py DEFAULT_STATUS / DEFAULT_PRIO / DEFAULT_DATE
DEFAULT_STATUS == S_o
DEFAULT_PRIO == C_A
DEFAULT_DATE == C_A

\* _ctx_from_kv with the page of the token dropped
_ctx_from_kv_page_one(kv) ==
    [s |-> KvGet(kv, <<"s">>, DEFAULT_STATUS),
     p |-> 1,
     f |-> KvGet(kv, <<"f">>, DEFAULT_PRIO),
     d |-> KvGet(kv, <<"d">>, DEFAULT_DATE)]

\* handlers/list_tasks.py _ctx_from_kv -> (s, p, f, d)
_ctx_from_kv(kv) ==
    [s |-> KvGet(kv, <<"s">>, DEFAULT_STATUS),
     p |-> _safe_int(KvGet(kv, <<"p">>, <<"1">>), 1),
     f |-> KvGet(kv, <<"f">>, DEFAULT_PRIO),
     d |-> KvGet(kv, <<"d">>, DEFAULT_DATE)]

\* ------------------------------------------------------------------------
\* Handler runs
\* ------------------------------------------------------------------------
\* The run of one handler on one update is computed as a chain of steps over
\* a context c:
\*   db     the tables as the run sees them (uncommitted writes included)
\*   snap   the tables when the open transaction began
\*   intx   a transactional_session() of the run is open
\*   fsm    the FSMContext of the chat
\*   trace  the calls made so far: repository calls, commits, chat calls
\*   n      how many calls that can raise were made
\*   fault  which of them raises (0: none; MaxFault + 1: every call on the
\*          users table; MaxFault + 1 + f: the calls number f and f + 1)
\*   exc    an exception is propagating;  ret  the handler has returned
\*   uid, ok, pg   the values the last calls returned
\* A step does nothing once an exception propagates or the handler returned.
MaxFault == 12

Db(ts, us, nid) == [tasks |-> ts, users |-> us, nextId |-> nid]

NoPage == [tasks |-> <<>>, total |-> 0, page |-> 1, queries |-> 0]

NewCtx(tg, fault, tb) ==
    [tg |-> tg, db |-> Db(tasks, users, nextId), snap |-> Db(tasks, users, nextId),
     intx |-> FALSE, fsm |-> fsm[tg], trace |-> <<>>, n |-> 0, fault |-> fault,
     exc |-> FALSE, ret |-> FALSE, uid |-> 0, ok |-> FALSE, pg |-> NoPage,
     tb |-> tb, t |-> now]

Halted(c) == c.exc \/ c.ret

\* the call being made (number c.n) is one that raises
FirstFault(fault) == IF fault > MaxFault + 1 THEN fault - (MaxFault + 1) ELSE fault
LastFault(fault) == IF fault > MaxFault + 1 THEN fault - MaxFault ELSE fault
Faulty(c) == c.n \in FirstFault(c.fault)..LastFault(c.fault)

\* An entry of the trace: the call k, whether it returned (ok) or raised,
\* whether a transaction of the run was open when it was made (tx), and what
\* it carried: a chat text, a task id, a returned flag, a rendered page (in
\* `rows` its rows, or the tokens of a keyboard sent on its own).
Event(c, k, ok) ==
    [k |-> k, ok |-> ok, tx |-> c.intx, text |-> "", tid |-> 0, ret |-> FALSE,
     page |-> 0, rows |-> <<>>, total |-> 0]

Log(c, ev) == [c EXCEPT !.trace = Append(@, ev)]

\* A call that can raise: run(c) is what it does when it does not.
Attempt(c, k, run(_)) ==
    IF Halted(c) THEN c
    ELSE LET c1 == [c EXCEPT !.n = @ + 1]
         IN IF Faulty(c1)
            THEN [Log(c1, Event(c1, k, FALSE)) EXCEPT !.exc = TRUE]
            ELSE run(c1)

Return(c) == IF Halted(c) THEN c ELSE [c EXCEPT !.ret = TRUE]

\* try: <body> except Exception: <handler>   (c0: before the body, c1: after)
Catch(c0, c1, handler(_)) ==
    IF ~Halted(c0) /\ c1.exc THEN handler([c1 EXCEPT !.exc = FALSE]) ELSE c1

\* with contextlib.suppress(Exception): <body>
Suppress(c0, c1) == Catch(c0, c1, LAMBDA c : c)

\* database/session.py transactional_session: commit when the body ends
\* (a return inside the body included), rollback when it raises; a failing
\* commit rolls back and raises.
TxBegin(c) == IF Halted(c) THEN c ELSE [c EXCEPT !.intx = TRUE, !.snap = c.db]

TxEnd(c0, c) ==
    IF Halted(c0) THEN c0
    ELSE IF c.exc
    THEN [Log(c, Event(c, "rollback", TRUE)) EXCEPT !.db = c.snap, !.intx = FALSE]
    ELSE LET c1 == [c EXCEPT !.n = @ + 1]
         IN IF Faulty(c1)
            THEN [Log(c1, Event(c1, "commit", FALSE))
                     EXCEPT !.db = c.snap, !.intx = FALSE, !.exc = TRUE, !.ret = FALSE]
            ELSE [Log(c1, Event(c1, "commit", TRUE)) EXCEPT !.intx = FALSE]

transactional_session(c, body(_)) == TxEnd(c, body(TxBegin(c)))

\* --- chat-platform calls: CallbackQuery.answer, Message.answer,
\* Message.edit_text, Message.edit_reply_markup
\* (a call that raised, c: before it, c1: after, was given the text too)
TextGiven(c, c1, text) ==
    IF ~Halted(c) /\ c1.exc
    THEN [c1 EXCEPT !.trace[Len(c1.trace)] = [@ EXCEPT !.text = text]]
    ELSE c1

ChatCall(c, k, text) ==
    TextGiven(c, Attempt(c, k, LAMBDA c1 : Log(c1, [Event(c1, k, TRUE) EXCEPT !.text = text])),
              text)

cb_answer(c, text) == ChatCall(c, "cb.answer", text)
message_answer(c, text) == ChatCall(c, "message.answer", text)
edit_text(c, text) == ChatCall(c, "edit_text", text)
edit_reply_markup(c, text) == ChatCall(c, "edit_reply_markup", text)

\* --- FSMContext (MemoryStorage)
set_state(c, st) == IF Halted(c) THEN c ELSE [c EXCEPT !.fsm.state = st]

update_data(c, kv) ==
    IF Halted(c) THEN c
    ELSE [c EXCEPT !.fsm.data =
             [k \in DOMAIN c.fsm.data \cup DOMAIN kv |->
                 IF k \in DOMAIN kv THEN kv[k] ELSE c.fsm.data[k]]]

state_clear(c) == IF Halted(c) THEN c ELSE [c EXCEPT !.fsm = NoFsm]

\* --- repository calls made on the session of the run
\* crud.create_or_update_user: looks the user up by telegram id, inserts a
\* row when there is none; returns the row (c.uid: its id)
\* the call k raised
Failed(c, k) == [Log(c, Event(c, k, FALSE)) EXCEPT !.exc = TRUE]

\* fault = MaxFault + 1: the table `users` cannot be reached during the run,
\* every create_or_update_user of the run raises
UsersDown(c) == c.fault = MaxFault + 1

UserIdOf(us, tg) == IF tg \in DOMAIN us THEN us[tg].id ELSE Cardinality(DOMAIN us) + 1

create_or_update_user(c) ==
    IF ~Halted(c) /\ UsersDown(c)
    THEN Failed([c EXCEPT !.n = @ + 1], "create_or_update_user")
    ELSE
    Attempt(c, "create_or_update_user", LAMBDA c1 :
        LET us == c1.db.users
            id == UserIdOf(us, c1.tg)
        IN Log([c1 EXCEPT !.uid = id,
                          !.db.users = [k \in DOMAIN us \cup {c1.tg} |->
                                           IF k = c1.tg THEN [id |-> id] ELSE us[k]]],
               [Event(c1, "create_or_update_user", TRUE) EXCEPT !.ret = TRUE]))

\* a mutation of `tasks` whose result on the tables is r = [tbl, ret]
\* (a call refused by the database raises as any failing call does)
Refused(r) == "raised" \in DOMAIN r /\ r.raised

Mutation(c, k, tid, r) ==
    Attempt(c, k, LAMBDA c1 :
        IF Refused(r) THEN Failed(c1, k)
        ELSE Log([c1 EXCEPT !.db.tasks = r.tbl, !.ok = r.ret],
                 [Event(c1, k, TRUE) EXCEPT !.tid = tid, !.ret = r.ret]))

\* ------------------------------------------------------------------------
\* Listing keyboard and list rendering
\* ------------------------------------------------------------------------
\* callback-data prefixes and whole tokens
P_tlist == <<"t", "l", "i", "s", "t">>
P_tact_done == <<"t", "a", "c", "t", ":", "d", "o", "n", "e", ":">>
P_tact_undo == <<"t", "a", "c", "t", ":", "u", "n", "d", "o", ":">>
P_tact_del == <<"t", "a", "c", "t", ":", "d", "e", "l", ":">>
P_tact_edit == <<"t", "a", "c", "t", ":", "e", "d", "i", "t", ":">>
P_tact_snz == <<"t", "a", "c", "t", ":", "s", "n", "z", ":">>
P_tsnz == <<"t", "s", "n", "z", ":">>
P_done == <<"d", "o", "n", "e", ":">>
P_delete == <<"d", "e", "l", "e", "t", "e", ":">>
P_confirm_delete == <<"c", "o", "n", "f", "i", "r", "m", "_">> \o P_delete
D_cancel_delete == <<"c", "a", "n", "c", "e", "l", "_", "d", "e", "l", "e", "t", "e">>
D_noop == <<"n", "o", "o", "p">>
D_noop_listing == D_noop \o <<":", "l", "i", "s", "t", "i", "n", "g">>
P_due == <<"d", "u", "e", ":">>
P_priority == <<"p", "r", "i", "o", "r", "i", "t", "y", ":">>

\* a priority cycle that leaves A out once it was left
_PRIO_CYCLE_without_A(f) ==
    IF f = C_A THEN C_H ELSE IF f = C_H THEN C_M ELSE IF f = C_M THEN C_L ELSE C_H

\* _PRIO_CYCLE.get(f, "A") and _DATE_CYCLE.get(d, "A")
_PRIO_CYCLE(f) ==
    IF f = C_A THEN C_H ELSE IF f = C_H THEN C_M ELSE IF f = C_M THEN C_L ELSE C_A

_DATE_CYCLE(d) ==
    IF d = C_A THEN C_T ELSE IF d = C_T THEN C_W ELSE IF d = C_W THEN C_O
    ELSE IF d = C_O THEN C_N ELSE C_A

\* the four buttons of one task row
RowButtons(tid, status, page, f, d) ==
    << _join_kv((IF status = S_o THEN P_tact_done ELSE P_tact_undo) \o IntToStr(tid),
                status, page, f, d),
       _join_kv(P_tact_edit \o IntToStr(tid), status, page, f, d),
       _join_kv(P_tact_del \o IntToStr(tid), status, page, f, d),
       _join_kv(P_tact_snz \o IntToStr(tid), status, page, f, d) >>

RECURSIVE AllRowButtons(_, _, _, _, _)
AllRowButtons(task_ids, status, page, f, d) ==
    IF Len(task_ids) = 0 THEN <<>>
    ELSE RowButtons(task_ids[1], status, page, f, d)
            \o AllRowButtons(Tail(task_ids), status, page, f, d)

\* the buttons below the task rows with the priority cycle keeping the page
NavButtons_cycle_keeps_page(status, pg, per_page, total, f, d) ==
    << _join_kv(P_tlist, status, _clamp_page(pg - 1, per_page, total), f, d),
       [data |-> D_noop_listing, raised |-> FALSE],
       _join_kv(P_tlist, status, _clamp_page(pg + 1, per_page, total), f, d),
       _join_kv(P_tlist, IF status = S_o THEN S_d ELSE S_o, 1, f, d),
       _join_kv(P_tlist, status, pg, _PRIO_CYCLE(f), d),
       _join_kv(P_tlist, status, 1, f, _DATE_CYCLE(d)),
       _join_kv(P_tlist, status, pg, f, d) >>

\* the buttons below the task rows: previous, counter, next, status toggle,
\* priority cycle, date cycle, refresh
NavButtons(status, pg, per_page, total, f, d) ==
    << _join_kv(P_tlist, status, _clamp_page(pg - 1, per_page, total), f, d),
       [data |-> D_noop_listing, raised |-> FALSE],
       _join_kv(P_tlist, status, _clamp_page(pg + 1, per_page, total), f, d),
       _join_kv(P_tlist, IF status = S_o THEN S_d ELSE S_o, 1, f, d),
       _join_kv(P_tlist, status, 1, _PRIO_CYCLE(f), d),
       _join_kv(P_tlist, status, 1, f, _DATE_CYCLE(d)),
       _join_kv(P_tlist, status, pg, f, d) >>

\* the markup of a sequence of built buttons
Markup(all) ==
    [buttons |-> [i \in 1..Len(all) |-> all[i].data],
     raised |-> \E i \in 1..Len(all) : all[i].raised]

KeyboardAt(task_ids, status, pg, per_page, total, f, d) ==
    Markup(AllRowButtons(task_ids, status, pg, f, d)
               \o NavButtons(status, pg, per_page, total, f, d))

\* build_listing_keyboard: the callback data of its buttons in order, and
\* whether building one of them raised (the assertion of _join_kv).
build_listing_keyboard(task_ids, status, page, per_page, total, f, d) ==
    KeyboardAt(task_ids, status, _clamp_page(page, per_page, total), per_page, total, f, d)

\* _db_user_id_from_tg: the upsert in a transaction of its own; any
\* exception (the commit's included) is logged and None (0) is returned.
_db_user_id_from_tg(c) ==
    Catch(c, transactional_session(c, LAMBDA x : create_or_update_user(x)),
          LAMBDA x : [x EXCEPT !.uid = 0])

\* one get_tasks_paginated on the session
Query(c) ==
    Attempt(c, "get_tasks_paginated", LAMBDA z :
        Log(z, [Event(z, "get_tasks_paginated", TRUE) EXCEPT !.ret = TRUE]))

\* the queries of _fetch_page whose result is r; the result is kept in c.pg
Queries(c, r) == IF r.queries = 2 THEN Query(Query(c)) ELSE Query(c)
KeepPage(c, r) == IF Halted(c) THEN c ELSE [c EXCEPT !.pg = r]
FetchInto(c, r) == KeepPage(Queries(c, r), r)

\* _fetch_page run on a session: one or two get_tasks_paginated, then commit
_fetch_page_tx(c, status, page, f, d) ==
    transactional_session(c, LAMBDA x :
        FetchInto(x, _fetch_page(x.db.tasks, x.uid, status, page, f, d, x.t,
                                 x.tb[1], x.tb[2])))

\* the rendered page as the argument of a chat call: text "list" with the
\* page shown
ListEvent(c, ev) ==
    [ev EXCEPT !.text = "list", !.page = c.pg.page, !.rows = c.pg.tasks,
               !.total = c.pg.total]

\* a call that raised (c: before it, c1: after) was given the page too
ListGiven(c, c1) ==
    IF ~Halted(c) /\ c1.exc
    THEN [c1 EXCEPT !.trace[Len(c1.trace)] = ListEvent(c, @)]
    ELSE c1

\* sending the rendered page
SendList(c, k) ==
    ListGiven(c, Attempt(c, k, LAMBDA x : Log(x, ListEvent(x, Event(x, k, TRUE)))))

\* _show_list after the page is fetched: the keyboard is built ...
BuildKeyboard(c, status, f, d) ==
    IF ~Halted(c) /\ build_listing_keyboard(c.pg.tasks, status, c.pg.page, PER_PAGE,
                                            c.pg.total, f, d).raised
    THEN [Log(c, Event(c, "build_listing_keyboard", FALSE)) EXCEPT !.exc = TRUE]
    ELSE c

\* ... and the page goes out: to a Message by answer(); to a CallbackQuery
\* by edit_text() (edit) or answer(), with answer() as the fallback of either,
\* and the callback is answered, all failures of which are swallowed
SendToCallback_no_fallback(c, edit) ==
    Suppress(c, IF edit THEN SendList(c, "edit_text") ELSE SendList(c, "message.answer"))
SendToCallback(c, edit) ==
    Catch(c, IF edit THEN SendList(c, "edit_text") ELSE SendList(c, "message.answer"),
          LAMBDA x : Suppress(x, SendList(x, "message.answer")))

CloseCallback(c) == Suppress(c, cb_answer(c, ""))

SendPage(c, is_message, edit) ==
    IF is_message THEN SendList(c, "message.answer")
    ELSE CloseCallback(SendToCallback(c, edit))

\* _show_list when the user could not be mapped
ShowUnidentified(c, is_message) ==
    IF is_message THEN message_answer(c, "unidentified")
    ELSE Suppress(c, cb_answer(message_answer(c, "unidentified"), ""))

\* (a variant that renders the list whether or not the user was mapped)
ShowListFor_unmapped_too(c, is_message, status, page, f, d, edit) ==
    SendPage(BuildKeyboard(_fetch_page_tx(c, status, page, f, d), status, f, d),
             is_message, edit)

\* _show_list once db_user_id (c.uid) is settled
ShowListFor(c, is_message, status, page, f, d, edit) ==
    IF c.uid = 0 THEN ShowUnidentified(c, is_message)
    ELSE SendPage(BuildKeyboard(_fetch_page_tx(c, status, page, f, d), status, f, d),
                  is_message, edit)

\* _show_list(source, status, page, prio_filter, date_filter, edit,
\* db_user_id = c.uid); is_message: source is a Message, not a CallbackQuery
_show_list(c, is_message, status, page, f, d, edit) ==
    ShowListFor(IF c.uid = 0 THEN _db_user_id_from_tg(c) ELSE c,
                is_message, status, page, f, d, edit)

\* ------------------------------------------------------------------------
\* bot/handlers/list_tasks.py: the handlers
\* ------------------------------------------------------------------------
\* Chat texts are named by what they say: "invalid" is the notice
\* "data invalid", "unidentified" is "your account was not identified",
\* "error" is the notice shown when the repository call returned False.

\* _, _, id_str = head.split(":", 2); tid = int(id_str)
\* None when either raises (ValueError)
TactId(head) ==
    LET parts == Split(head, ":", 2)
    IN IF Len(parts) # 3 THEN None ELSE ParseInt(parts[3])

\* _, id_str, mins_str = head.split(":", 2); tid = int(id_str);
\* mins = _safe_int(mins_str, 15).  None when the unpacking or int() raises.
SnoozeArgs(head) ==
    LET parts == Split(head, ":", 2)
    IN IF Len(parts) # 3 \/ ParseInt(parts[2]) = None THEN None
       ELSE Some([tid |-> Val(ParseInt(parts[2])),
                  mins |-> _safe_int(parts[3], SNOOZE_DEFAULT)])

\* dict.get(key, default) on the FSM data
DataGet(data, key, default) == IF key \in DOMAIN data THEN data[key] ELSE default

\* The common body of act_done, act_undo, act_delete, act_snooze_apply once
\* the token is decoded: map the user, mutate in one transaction, answer the
\* callback, re-render the list at the cursor k.
\* ... the callback is answered by what the mutation returned, then the list
ActAnswer_default_cursor(c, k, ok_text) ==
    _show_list(cb_answer(c, IF c.ok THEN ok_text ELSE "error"),
               FALSE, DEFAULT_STATUS, 1, DEFAULT_PRIO, DEFAULT_DATE, TRUE)
ActAnswer(c, k, ok_text) ==
    _show_list(cb_answer(c, IF c.ok THEN ok_text ELSE "error"),
               FALSE, k.s, k.p, k.f, k.d, TRUE)

\* ... after the user was mapped (c.uid)
ActMapped(c, k, mutate(_), ok_text) ==
    IF c.uid = 0 THEN Return(cb_answer(c, "unidentified"))
    ELSE ActAnswer(transactional_session(c, mutate), k, ok_text)

ActOnTask(c, k, mutate(_), ok_text) ==
    ActMapped(_db_user_id_from_tg(c), k, mutate, ok_text)

entry_list(c) ==
    _show_list(_db_user_id_from_tg(c), TRUE, DEFAULT_STATUS, 1, DEFAULT_PRIO, DEFAULT_DATE, FALSE)

ListNavTo(c, k) == _show_list(_db_user_id_from_tg(c), FALSE, k.s, k.p, k.f, k.d, TRUE)

on_list_nav(c, data) == ListNavTo(c, _ctx_from_kv(_parse_kv(data).kv))

\* a no-op that resolves the user first
noop_listing_resolving(c) == Suppress(c, cb_answer(_db_user_id_from_tg(c), " "))

noop_listing(c) == Suppress(c, cb_answer(c, " "))

\* act_done / act_undo with the decoded token: p = _parse_kv(data),
\* tid = the task id or None
SetDoneDecoded(c, p, tid, done, ok_text) ==
    IF tid = None THEN Return(cb_answer(c, "invalid"))
    ELSE ActOnTask(c, _ctx_from_kv(p.kv),
             LAMBDA x : Mutation(x, "set_task_done", Val(tid),
                            set_task_done(x.db.tasks, x.uid, Val(tid), done, x.t)),
             ok_text)

SetDoneParsed(c, p, done, ok_text) == SetDoneDecoded(c, p, TactId(p.head), done, ok_text)

act_done(c, data) == SetDoneParsed(c, _parse_kv(data), TRUE, "done")

act_undo(c, data) == SetDoneParsed(c, _parse_kv(data), FALSE, "undone")

DeleteDecoded(c, p, tid) ==
    IF tid = None THEN Return(cb_answer(c, "invalid"))
    ELSE ActOnTask(c, _ctx_from_kv(p.kv),
             LAMBDA x : Mutation(x, "delete_task_by_id", Val(tid),
                            delete_task_by_id(x.db.tasks, x.uid, Val(tid))),
             "deleted")

DeleteParsed(c, p) == DeleteDecoded(c, p, TactId(p.head))

act_delete(c, data) == DeleteParsed(c, _parse_kv(data))

EditStartDecoded(c, tid, k) ==
    IF tid = None THEN Return(cb_answer(c, "invalid"))
    ELSE message_answer(
             cb_answer(
                 update_data(set_state(c, "EditTask:waiting_for_new_content"),
                             [task_id |-> Val(tid), s |-> k.s, p |-> k.p, f |-> k.f,
                              d |-> k.d]),
                 ""),
             "send_new_content")

EditStartParsed(c, p) == EditStartDecoded(c, TactId(p.head), _ctx_from_kv(p.kv))

act_edit_start(c, data) == EditStartParsed(c, _parse_kv(data))

\* (a variant that shows the list at the default cursor)
EditSaved_default_cursor(c, data) ==
    _show_list(message_answer(state_clear(c), IF c.ok THEN "edited" ELSE "edit_error"),
               TRUE, DEFAULT_STATUS, 1, DEFAULT_PRIO, DEFAULT_DATE, FALSE)

\* act_edit_save after the update: the session is cleared, the result told,
\* the list shown again at the cursor kept in the FSM data
EditSaved(c, data) ==
    _show_list(message_answer(state_clear(c), IF c.ok THEN "edited" ELSE "edit_error"),
               TRUE, DataGet(data, "s", DEFAULT_STATUS), DataGet(data, "p", 1),
               DataGet(data, "f", DEFAULT_PRIO), DataGet(data, "d", DEFAULT_DATE), FALSE)

EditSaveMapped(c, data, new_text) ==
    IF c.uid = 0 THEN Return(state_clear(message_answer(c, "unidentified")))
    ELSE EditSaved(
             transactional_session(c, LAMBDA x :
                 Mutation(x, "update_task_content", data.task_id,
                     update_task_content(x.db.tasks, x.uid, data.task_id, new_text, x.t))),
             data)

\* (a variant that ends the session when the text is too short)
EditSaveWith_short_ends_session(c, data, new_text) ==
    IF "task_id" \notin DOMAIN data
    THEN Return(message_answer(state_clear(c), "edit_session_invalid"))
    ELSE IF Len(new_text) < 3 THEN Return(state_clear(message_answer(c, "too_short")))
    ELSE EditSaveMapped(_db_user_id_from_tg(c), data, new_text)

EditSaveWith(c, data, new_text) ==
    IF "task_id" \notin DOMAIN data
    THEN Return(message_answer(state_clear(c), "edit_session_invalid"))
    ELSE IF Len(new_text) < 3 THEN Return(message_answer(c, "too_short"))
    ELSE EditSaveMapped(_db_user_id_from_tg(c), data, new_text)

act_edit_save(c, text) == EditSaveWith(c, c.fsm.data, Strip(text))

\* handlers/list_tasks.py _snooze_keyboard: the minutes of its buttons
SNOOZE_OPTIONS == <<15, 60, 60 * 24, 60 * 24 * 3, 60 * 24 * 7>>

\* f"tsnz:{tid}:{mins};s={s};p={p};f={f};d={d}"
SnoozeToken(tid, mins, s, p, f, d) ==
    P_tsnz \o IntToStr(tid) \o <<":">> \o IntToStr(mins)
        \o Kv("s", s) \o Kv("p", IntToStr(p)) \o Kv("f", f) \o Kv("d", d)

\* (a snooze menu that always leads to the first page)
_snooze_keyboard_first_page(tid, s, p, f, d) ==
    [k \in 1..Len(SNOOZE_OPTIONS) |-> SnoozeToken(tid, SNOOZE_OPTIONS[k], s, 1, f, d)]
        \o << P_tlist \o Kv("s", s) \o Kv("p", IntToStr(1)) \o Kv("f", f) \o Kv("d", d) >>

\* _snooze_keyboard: one button per option, then the cancel button that
\* leads back to the list
_snooze_keyboard(tid, s, p, f, d) ==
    [k \in 1..Len(SNOOZE_OPTIONS) |-> SnoozeToken(tid, SNOOZE_OPTIONS[k], s, p, f, d)]
        \o << P_tlist \o Kv("s", s) \o Kv("p", IntToStr(p)) \o Kv("f", f) \o Kv("d", d) >>

\* the chat call made last (c: before it, c1: after) was given the keyboard
\* kb; the trace keeps its tokens in `rows`
KeyboardGiven(c, c1, kb) ==
    IF Halted(c) THEN c1 ELSE [c1 EXCEPT !.trace[Len(c1.trace)].rows = kb]

SnoozeOpenDecoded(c, tid, k) ==
    IF tid = None THEN Return(cb_answer(c, "invalid"))
    ELSE cb_answer(KeyboardGiven(c, edit_reply_markup(c, "snooze_keyboard"),
                                 _snooze_keyboard(Val(tid), k.s, k.p, k.f, k.d)),
                   "choose_snooze")

SnoozeOpenParsed(c, p) == SnoozeOpenDecoded(c, TactId(p.head), _ctx_from_kv(p.kv))

act_snooze_open(c, data) == SnoozeOpenParsed(c, _parse_kv(data))

SnoozeDecoded(c, p, a) ==
    IF a = None THEN Return(cb_answer(c, "invalid"))
    ELSE ActOnTask(c, _ctx_from_kv(p.kv),
             LAMBDA x : Mutation(x, "snooze_task_by_id", Val(a).tid,
                            snooze_task_by_id(x.db.tasks, x.uid, Val(a).tid,
                                              Val(a).mins, x.t)),
             "snoozed")

SnoozeParsed(c, p) == SnoozeDecoded(c, p, SnoozeArgs(p.head))

act_snooze_apply(c, data) == SnoozeParsed(c, _parse_kv(data))

\* ------------------------------------------------------------------------
\* bot/handlers/mark_done.py and bot/handlers/delete_task.py
\* ------------------------------------------------------------------------
\* _safe_cb_answer (both modules): cb.answer with every exception swallowed
_safe_cb_answer(c, text) == Suppress(c, cb_answer(c, text))

\* delete_task._edit_reply_markup_safely / _edit_text_safely
_edit_reply_markup_safely(c, text) == Suppress(c, edit_reply_markup(c, text))
_edit_text_safely(c, text) == Suppress(c, edit_text(c, text))

\* mark_done._extract_task_id: int(cb_data.split(":", 1)[1])
mark_done_extract_task_id(data) ==
    IF Len(data) = 0 \/ ~StartsWith(data, P_done) THEN None
    ELSE ParseInt(Split(data, ":", 1)[2])

\* delete_task._extract_task_id: the first prefix that matches decides; the
\* tail is cut at the first ";" and then at the first ":" before int()
RECURSIVE delete_extract_task_id(_, _)
delete_extract_task_id(data, prefixes) ==
    IF Len(data) = 0 \/ Len(prefixes) = 0 THEN None
    ELSE IF StartsWith(data, prefixes[1])
    THEN LET tail0 == SubSeq(data, Len(prefixes[1]) + 1, Len(data))
             tail1 == IF FirstIndex(tail0, ";") # 0 THEN Split(tail0, ";", 1)[1] ELSE tail0
             tail2 == IF FirstIndex(tail1, ":") # 0 THEN Split(tail1, ":", 1)[1] ELSE tail1
         IN ParseInt(tail2)
    ELSE delete_extract_task_id(data, Tail(prefixes))

\* row.scalars().first() of SELECT Task WHERE id AND user_id on the session
SelectTask(c, tid) ==
    Attempt(c, "select_task", LAMBDA x :
        Log(x, [Event(x, "select_task", TRUE) EXCEPT
                    !.tid = tid, !.ret = WhereIdUser(x.db.tasks, tid, x.uid)]))

\* handle_mark_task_done, from the inside out.  After the transaction: the
\* callback is answered, then the message is edited (text if the row was
\* read, else only the keyboard is removed)
MarkDoneEdit(c, tid) ==
    IF WhereIdUser(c.db.tasks, tid, c.uid)
    THEN Catch(c, edit_text(c, "done_message"),
               LAMBDA y : Suppress(y, edit_reply_markup(y, "no_keyboard")))
    ELSE Suppress(c, edit_reply_markup(c, "no_keyboard"))

MarkDoneAfter(c, tid) == MarkDoneEdit(_safe_cb_answer(c, "done"), tid)

\* ... inside the transaction, after set_task_done
MarkDoneSet(c, tid) ==
    IF ~Halted(c) /\ ~c.ok THEN Return(_safe_cb_answer(c, "not_found"))
    ELSE SelectTask(c, tid)

\* ... inside the transaction, after create_or_update_user
MarkDoneUser(c, tid) ==
    IF ~Halted(c) /\ c.uid = 0 THEN Return(_safe_cb_answer(c, "unidentified"))
    ELSE MarkDoneSet(Mutation(c, "set_task_done", tid,
                              set_task_done(c.db.tasks, c.uid, tid, TRUE, c.t)), tid)

MarkDoneWith(c, task_id) ==
    IF task_id = None THEN Return(_safe_cb_answer(c, "invalid"))
    ELSE Catch(c,
               MarkDoneAfter(
                   transactional_session(c, LAMBDA x :
                       MarkDoneUser(create_or_update_user(x), Val(task_id))),
                   Val(task_id)),
               LAMBDA y : _safe_cb_answer(y, "handler_error"))

handle_mark_task_done(c, data) == MarkDoneWith(c, mark_done_extract_task_id(data))

\* confirm_delete: the keyboard is removed, the confirmation is asked for;
\* nothing is deleted
AskConfirm(c, tid) ==
    Attempt(c, "message.answer", LAMBDA y :
        Log(y, [Event(y, "message.answer", TRUE) EXCEPT
                    !.text = "confirm_delete?", !.tid = tid]))

ConfirmDeleteAsk(c, tid) ==
    Catch(c, _safe_cb_answer(AskConfirm(c, tid), ""),
          LAMBDA y : _safe_cb_answer(y, "handler_error"))

ConfirmDeleteWith(c, task_id) ==
    IF task_id = None THEN Return(_safe_cb_answer(c, "invalid"))
    ELSE ConfirmDeleteAsk(_edit_reply_markup_safely(c, "no_keyboard"), Val(task_id))

confirm_delete(c, data) ==
    ConfirmDeleteWith(c, delete_extract_task_id(data, <<P_delete, P_tact_del>>))

\* handle_confirm_delete, from the inside out
\* (a variant that reports every confirm as a deletion)
DoDeleteAfter_always_deleted(c) == _safe_cb_answer(_edit_text_safely(c, "deleted"), "")
DoDeleteAfter(c) ==
    IF ~Halted(c) /\ ~c.ok THEN Return(_safe_cb_answer(c, "not_found"))
    ELSE _safe_cb_answer(_edit_text_safely(c, "deleted"), "")

DoDeleteUser(c, tid) ==
    IF ~Halted(c) /\ c.uid = 0 THEN Return(_safe_cb_answer(c, "unidentified"))
    ELSE Mutation(c, "delete_task_by_id", tid, delete_task_by_id(c.db.tasks, c.uid, tid))

DoDeleteWith(c, task_id) ==
    IF task_id = None THEN Return(_safe_cb_answer(c, "invalid"))
    ELSE Catch(c,
               DoDeleteAfter(
                   transactional_session(c, LAMBDA x :
                       DoDeleteUser(create_or_update_user(x), Val(task_id)))),
               LAMBDA y : _safe_cb_answer(y, "handler_error"))

handle_confirm_delete(c, data) ==
    DoDeleteWith(c, delete_extract_task_id(data, <<P_confirm_delete>>))

cancel_delete(c) == _safe_cb_answer(_edit_reply_markup_safely(c, "no_keyboard"), "cancelled")

\* ------------------------------------------------------------------------
\* bot/handlers/add_task.py
\* ------------------------------------------------------------------------
\* LOCAL_TZ = ZoneInfo(settings.TZ): Asia/Tehran is UTC+03:30
LOCAL_OFFSET == 210
MIN_PER_HOUR == 60

\* " ".join(parts)
RECURSIVE JoinSpace(_)
JoinSpace(parts) ==
    IF Len(parts) = 0 THEN <<>>
    ELSE IF Len(parts) = 1 THEN parts[1]
    ELSE parts[1] \o <<" ">> \o JoinSpace(Tail(parts))

\* _normalize_content: strip, runs of whitespace become one space, cut at
\* CONTENT_MAX_LEN
_normalize_content(text) ==
    Truncate(JoinSpace(SelectSeq(Split(text, " ", 0 - 1), LAMBDA w : Len(w) > 0)),
             CONTENT_MAX)

\* add_task._safe_answer: message.answer with every exception swallowed
_safe_answer(c, text) == Suppress(c, message_answer(c, text))

\* _to_utc of an aware local datetime with wall-clock `wall`
_to_utc(wall) == Some([wall |-> wall - LOCAL_OFFSET, off |-> Some(0)])

\* the local wall clock of _now_local()
_now_local(t) == t + LOCAL_OFFSET

\* handle_due_selection: the due date of a keyboard choice, as stored in the
\* FSM data (an aware UTC datetime, or None)
D_today == <<"t", "o", "d", "a", "y">>
D_tomorrow == <<"t", "o", "m", "o", "r", "r", "o", "w">>
D_urgent == <<"u", "r", "g", "e", "n", "t">>
D_week == <<"w", "e", "e", "k">>
D_none == <<"n", "o", "n", "e">>
D_manual == <<"m", "a", "n", "u", "a", "l">>

DueChoices == {D_today, D_tomorrow, D_urgent, D_week, D_none, D_manual}

DueOfChoice(choice, t) ==
    LET wall == _now_local(t)
    IN CASE choice = D_today -> _to_utc(StartOfDay(wall) + 21 * MIN_PER_HOUR)
         [] choice = D_tomorrow ->
                _to_utc(StartOfDay(wall + MIN_PER_DAY) + 12 * MIN_PER_HOUR)
         [] choice = D_urgent -> _to_utc(wall + 2 * MIN_PER_HOUR)
         [] choice = D_week ->
                _to_utc(StartOfDay(wall + ((6 - Weekday(wall)) % DAYS_PER_WEEK) * MIN_PER_DAY)
                            + 23 * MIN_PER_HOUR)
         [] OTHER -> None

\* keyboards/priority.py parse_priority_from_callback
PriorityNames ==
    << [name |-> <<"H", "I", "G", "H">>, prio |-> "HIGH"],
       [name |-> <<"M", "E", "D", "I", "U", "M">>, prio |-> "MEDIUM"],
       [name |-> <<"L", "O", "W">>, prio |-> "LOW"] >>

parse_priority_from_callback(data, prefix) ==
    IF Len(data) = 0 \/ ~StartsWith(data, prefix) THEN None
    ELSE LET name == Upper(Strip(SubSeq(data, Len(prefix) + 1, Len(data))))
         IN IF \E k \in 1..Len(PriorityNames) : PriorityNames[k].name = name
            THEN Some(PriorityNames[CHOOSE k \in 1..Len(PriorityNames) :
                                        PriorityNames[k].name = name].prio)
            ELSE None

\* start_add_task: inside the transaction, after create_or_update_user
AddTaskUser(c) ==
    IF ~Halted(c) /\ c.uid = 0 THEN Return(message_answer(c, "user_error")) ELSE c

start_add_task(c) ==
    set_state(
        message_answer(
            transactional_session(c, LAMBDA x : AddTaskUser(create_or_update_user(x))),
            "enter_content"),
        "AddTask:waiting_for_content")

ReceiveContent(c, content) ==
    IF Len(content) < 3 THEN Return(message_answer(c, "too_short"))
    ELSE message_answer(
             set_state(update_data(c, [content |-> content]),
                       "AddTask:waiting_for_due_date"),
             "choose_due")

receive_content(c, text) == ReceiveContent(c, _normalize_content(text))

DueSelected(c, choice) ==
    IF choice = D_manual
    THEN Return(cb_answer(set_state(message_answer(c, "enter_date"),
                                    "AddTask:waiting_for_custom_date"), ""))
    ELSE IF choice \notin DueChoices THEN Return(cb_answer(c, "invalid_date"))
    ELSE message_answer(
             cb_answer(set_state(update_data(c, [due_date |-> DueOfChoice(choice, c.t)]),
                                 "AddTask:waiting_for_priority"), ""),
             "choose_priority")

handle_due_selection(c, data) == DueSelected(c, Split(data, ":", 1)[2])

\* create_task on the session of the run: the row gets the next key
CreateTaskRow(c, r) ==
    IF Refused(r) THEN Failed(c, "create_task")
    ELSE Log([c EXCEPT !.db.tasks = r.tbl, !.db.nextId = @ + 1, !.ok = TRUE],
             [Event(c, "create_task", TRUE) EXCEPT !.tid = r.ret, !.ret = TRUE])

CreateTaskCall(c, content, due_date, priority) ==
    Attempt(c, "create_task", LAMBDA x :
        CreateTaskRow(x, create_task(x.db.tasks, x.db.nextId, x.uid, content, due_date,
                                     priority, x.t)))

\* TaskPriority[priority_str], MEDIUM when the name is unknown
SavePriority(priority_str) == IF priority_str \in TaskPriority THEN priority_str ELSE "MEDIUM"

\* _save_task: inside the transaction, after create_or_update_user; the
\* success message is sent before the block is left
SaveTaskUser(c, data) ==
    IF ~Halted(c) /\ c.uid = 0
    THEN Return(state_clear(_safe_answer(c, "unidentified")))
    ELSE _safe_answer(
             CreateTaskCall(c, DataGet(data, "content", <<>>),
                            DataGet(data, "due_date", None),
                            SavePriority(DataGet(data, "priority", "MEDIUM"))),
             "saved")

SaveTaskWith(c, data) ==
    IF Len(DataGet(data, "content", <<>>)) = 0
    THEN Return(state_clear(_safe_answer(c, "no_content")))
    ELSE _safe_answer(
             state_clear(
                 transactional_session(c, LAMBDA x :
                     SaveTaskUser(create_or_update_user(x), data))),
             "main_menu")

_save_task(c) == SaveTaskWith(c, c.fsm.data)

PrioritySelected(c, priority) ==
    IF priority = None THEN Return(cb_answer(c, "invalid_priority"))
    ELSE _save_task(
             message_answer(cb_answer(update_data(c, [priority |-> Val(priority)]), ""),
                            "priority_chosen"))

handle_priority_selection(c, data) ==
    PrioritySelected(c, parse_priority_from_callback(data, P_priority))

\* ------------------------------------------------------------------------
\* Dispatch: core/startup.py _include_routers
\* ------------------------------------------------------------------------
\* The routers are tried in the order they were included, the handlers of a
\* router in the order they were registered; the first whose filter accepts
\* the update handles it, and no other handler sees it.

\* message texts: "/start", the button that starts the add flow, a text of
\* _LIST_TRIGGERS (the buttons are written here in ASCII)
CMD_START == <<"/", "s", "t", "a", "r", "t">>
\* the command the prompt of act_edit_start names; no handler filters on it
CMD_CANCEL == <<"/", "c", "a", "n", "c", "e", "l">>
ADD_TASK_TEXT == <<"+", " ", "a", "d", "d">>
LIST_TRIGGER == <<"#", " ", "l", "i", "s", "t">>

First(hs) ==
    IF \E k \in 1..Len(hs) : hs[k].match
    THEN hs[CHOOSE k \in 1..Len(hs) : hs[k].match /\ \A j \in 1..(k - 1) : ~hs[j].match].h
    ELSE "unhandled"

H(h, match) == [h |-> h, match |-> match]

RouteCallback(data) ==
    First(<<
        \* add_task.router
        H("handle_due_selection", StartsWith(data, P_due)),
        H("handle_priority_selection", StartsWith(data, P_priority)),
        \* mark_done.router
        H("handle_mark_task_done", StartsWith(data, P_done)),
        \* delete_task.router
        H("confirm_delete", StartsWith(data, P_delete) \/ StartsWith(data, P_tact_del)),
        H("handle_confirm_delete", StartsWith(data, P_confirm_delete)),
        H("cancel_delete", data = D_cancel_delete),
        \* list_tasks.router
        H("on_list_nav", StartsWith(data, P_tlist)),
        H("noop_listing", data \in {D_noop, D_noop_listing}),
        H("act_done", StartsWith(data, P_tact_done)),
        H("act_undo", StartsWith(data, P_tact_undo)),
        H("act_delete", StartsWith(data, P_tact_del)),
        H("act_edit_start", StartsWith(data, P_tact_edit)),
        H("act_snooze_open", StartsWith(data, P_tact_snz)),
        H("act_snooze_apply", StartsWith(data, P_tsnz)) >>)

RouteMessage(text, state) ==
    First(<<
        \* start.router
        H("handle_start", text = CMD_START \/ StartsWith(text, CMD_START \o <<" ">>)),
        \* add_task.router
        H("start_add_task", text = ADD_TASK_TEXT),
        H("receive_content", state = "AddTask:waiting_for_content"),
        H("receive_custom_date", state = "AddTask:waiting_for_custom_date"),
        \* list_tasks.router
        H("entry_list", text = LIST_TRIGGER),
        H("act_edit_save", state = "EditTask:waiting_for_new_content"),
        \* menu.router
        H("handle_list_tasks", text = LIST_TRIGGER) >>)

\* the handlers of this model
CallbackHandlers ==
    {"handle_due_selection", "handle_priority_selection", "handle_mark_task_done",
     "confirm_delete", "handle_confirm_delete", "cancel_delete", "on_list_nav",
     "noop_listing", "act_done", "act_undo", "act_delete", "act_edit_start",
     "act_snooze_open", "act_snooze_apply", "unhandled"}

MessageHandlers ==
    {"start_add_task", "receive_content", "entry_list", "act_edit_save", "unhandled"}

RunCallback(h, c, data) ==
    CASE h = "handle_due_selection" -> handle_due_selection(c, data)
      [] h = "handle_priority_selection" -> handle_priority_selection(c, data)
      [] h = "handle_mark_task_done" -> handle_mark_task_done(c, data)
      [] h = "confirm_delete" -> confirm_delete(c, data)
      [] h = "handle_confirm_delete" -> handle_confirm_delete(c, data)
      [] h = "cancel_delete" -> cancel_delete(c)
      [] h = "on_list_nav" -> on_list_nav(c, data)
      [] h = "noop_listing" -> noop_listing(c)
      [] h = "act_done" -> act_done(c, data)
      [] h = "act_undo" -> act_undo(c, data)
      [] h = "act_delete" -> act_delete(c, data)
      [] h = "act_edit_start" -> act_edit_start(c, data)
      [] h = "act_snooze_open" -> act_snooze_open(c, data)
      [] h = "act_snooze_apply" -> act_snooze_apply(c, data)
      [] OTHER -> c

RunMessage(h, c, text) ==
    CASE h = "start_add_task" -> start_add_task(c)
      [] h = "receive_content" -> receive_content(c, text)
      [] h = "entry_list" -> entry_list(c)
      [] h = "act_edit_save" -> act_edit_save(c, text)
      [] OTHER -> c

\* ------------------------------------------------------------------------
\* Specification SpecPage: the listing functions applied to bounded inputs.
\* The store is drawn once (Init) and then only read.
\* ------------------------------------------------------------------------
\* A store of n + 1 rows: rows 1..n belong to user 1, the first k of them are
\* done; row n + 1 belongs to user 2.  With ties all rows share created_at.
PageRow(i, n, k, ties) ==
    [user_id |-> IF i <= n THEN 1 ELSE 2,
     content |-> <<"a", "b", "c">>,
     due_date |-> IF i % 3 = 0 THEN Some(i) ELSE None,
     priority |-> IF i % 2 = 0 THEN "HIGH" ELSE "MEDIUM",
     is_done |-> i <= k,
     created_at |-> IF ties THEN 0 ELSE i,
     updated_at |-> IF i <= k THEN MaxRows + 1 ELSE IF ties THEN 0 ELSE i,
     done_at |-> IF i <= k THEN Some(MaxRows + 1) ELSE None]

PageStore(n, k, ties) == [i \in 1..(n + 1) |-> PageRow(i, n, k, ties)]

\* The inputs are drawn in the initial state (res.out = None: not applied
\* yet) and the actions apply the functions to them.
ClampInput(page, per_page, total) ==
    [op |-> "clamp", page |-> page, per_page |-> per_page, total |-> total, out |-> None]

FetchInput(status, page, prio_filter, date_filter) ==
    [op |-> "fetch", status |-> status, page |-> page,
     f |-> prio_filter, d |-> date_filter, out |-> None]

\* The store of a query: rows 1..n, row 2 of another user, with the due
\* dates of QueryDues (taken in turn from the v-th on), priorities and done
\* flags in turn, creation times equal in pairs.  The clock stands at
\* QueryNow, a Tuesday, 10:00.
MaxQueryRows == 5
QueryNow == 5 * MIN_PER_DAY + 600
QueryDues ==
    << None,
       None,
       Some(QueryNow + 60),                  \* today, later
       Some(QueryNow - 60),                  \* today, earlier
       Some(QueryNow),                       \* this instant
       Some(QueryNow - MIN_PER_DAY),         \* yesterday, Monday
       Some(QueryNow - 600),                 \* today, 00:00
       Some(QueryNow - 600 + MIN_PER_DAY),   \* tomorrow, 00:00
       Some(QueryNow - 2 * MIN_PER_DAY),     \* Sunday of last week
       Some(QueryNow + 7 * MIN_PER_DAY) >>   \* Tuesday of next week

QueryRow(i, v) ==
    [user_id |-> IF i = 2 THEN 2 ELSE 1,
     content |-> <<"a", "b", "c">>,
     due_date |-> QueryDues[((i + v) % Len(QueryDues)) + 1],
     priority |-> <<"HIGH", "MEDIUM", "LOW">>[((i + v) % 3) + 1],
     is_done |-> (i + v) % 4 = 0,
     created_at |-> i \div 2,
     updated_at |-> i \div 2,
     done_at |-> IF (i + v) % 4 = 0 THEN Some(i \div 2) ELSE None]

QueryStore(n, v) == [i \in 1..n |-> QueryRow(i, v)]

QueryInput(is_done, prio_filter, date_filter, page, per_page) ==
    [op |-> "query", is_done |-> is_done, f |-> prio_filter, d |-> date_filter,
     page |-> page, per_page |-> per_page, out |-> None]

InitPage ==
    /\ \/ /\ tasks = <<>>
          /\ nextId = 1
          /\ now = MaxRows + 1
          /\ \E page \in (0 - MaxPage)..MaxPage, per_page \in 1..MaxPer, total \in 0..MaxRows :
                res = ClampInput(page, per_page, total)
       \/ /\ \E n \in 0..MaxRows : \E k \in {0, n \div 3} : \E ties \in BOOLEAN :
                /\ tasks = PageStore(n, k, ties)
                /\ nextId = n + 2
          /\ now = MaxRows + 1
          /\ \E status \in {S_o, S_d}, page \in 1..MaxPage, f \in {C_A, C_H}, d \in {C_A, C_N} :
                res = FetchInput(status, page, f, d)
       \/ /\ \E n \in 0..MaxQueryRows, v \in 0..(Len(QueryDues) - 1) :
                /\ tasks = QueryStore(n, v)
                /\ nextId = n + 1
          /\ now = QueryNow
          /\ \E is_done \in {None, Some(FALSE), Some(TRUE)},
                f \in {C_A, C_H, <<"m">>, <<"x">>}, d \in {C_A, C_T, C_W, C_O, C_N},
                page \in 1..3, per_page \in {1, 2, PER_PAGE} :
                res = QueryInput(is_done, f, d, page, per_page)
    /\ last = NoCall
    /\ BotIdle

\* _clamp_page (keyboard) and _page_counter (renderer) on the same inputs
ClampPage ==
    /\ res.op = "clamp"
    /\ res.out = None
    /\ res' = [res EXCEPT !.out =
                  Some([kb |-> _clamp_page(res.page, res.per_page, res.total),
                        rd |-> _page_counter(res.page, res.per_page, res.total).page])]
    /\ UNCHANGED <<tasks, nextId, now, last>>
    /\ UNCHANGED botVars

\* _fetch_page for user 1; the engine breaks ties as it likes in each query
FetchPage(tb1, tb2) ==
    /\ res.op = "fetch"
    /\ res.out = None
    /\ res' = [res EXCEPT !.out =
                  Some(_fetch_page(tasks, 1, res.status, res.page, res.f, res.d,
                                   now, tb1, tb2))]
    /\ UNCHANGED <<tasks, nextId, now, last>>
    /\ UNCHANGED botVars

\* get_tasks_paginated for user 1
QueryTasks(tb) ==
    /\ res.op = "query"
    /\ res.out = None
    /\ res' = [res EXCEPT !.out =
                  Some(get_tasks_paginated(tasks, 1, res.is_done, res.f, res.d, res.page,
                                           res.per_page, now, tb))]
    /\ UNCHANGED <<tasks, nextId, now, last>>
    /\ UNCHANGED botVars

NextPage ==
    \/ ClampPage
    \/ \E tb1 \in TieBreaks, tb2 \in TieBreaks : FetchPage(tb1, tb2)
    \/ \E tb \in TieBreaks : QueryTasks(tb)

SpecPage == InitPage /\ [][NextPage]_vars

\* ------------------------------------------------------------------------
\* Claims about pagination (checked under SpecPage)
\* ------------------------------------------------------------------------
Clamped == res.op = "clamp" /\ res.out # None
Fetched == res.op = "fetch" /\ res.out # None
Queried == res.op = "query" /\ res.out # None

\* C9 -- Pagination clamp: for total >= 0, per_page >= 1 and any requested
\* page (0 and negatives included) the clamped page p satisfies 1 <= p and
\* ((p - 1) * per_page < total or total = 0), and _clamp_page (keyboard) and
\* _page_counter (renderer) return the same page.
C9_PaginationClamp ==
    (Clamped /\ res.total >= 0 /\ res.per_page >= 1)
        => LET p == Val(res.out).kb
           IN /\ 1 <= p
              /\ ((p - 1) * res.per_page < res.total \/ res.total = 0)
              /\ p = Val(res.out).rd

\* C9 witness: a negative page was requested while tasks exist, and page 1
\* came back from both functions.
C9_Witness ==
    /\ Clamped
    /\ res.page < 0
    /\ res.total > res.per_page
    /\ Val(res.out).kb = 1
    /\ Val(res.out).rd = 1

\* the rows user 1 sees under the fetch recorded in res
FetchMatching ==
    {i \in DOMAIN tasks :
        Conds(tasks[i], 1, StatusIsDone(res.status), res.f, res.d, now)}

FetchLastPage == Max(1, Ceil(Cardinality(FetchMatching), PER_PAGE))

\* C10 -- Out-of-range page recovery: with an unchanged store, _fetch_page
\* for a requested page beyond the last valid page returns the rows of the
\* last valid page (as get_tasks_paginated gives them for that page), that
\* page number and the true total, with at most one corrective re-query.
C10_OutOfRangeRecovery ==
    (Fetched /\ res.page > FetchLastPage)
        => /\ Val(res.out).page = FetchLastPage
           /\ Val(res.out).total = Cardinality(FetchMatching)
           /\ \E tb \in TieBreaks :
                 Val(res.out).tasks =
                     get_tasks_paginated(tasks, 1, StatusIsDone(res.status), res.f, res.d,
                                         FetchLastPage, PER_PAGE, now, tb).rows
           /\ Len(Val(res.out).tasks) =
                 Cardinality(FetchMatching) - (FetchLastPage - 1) * PER_PAGE
           /\ Val(res.out).queries <= 2

\* C10 witness: 7 open tasks, page size 5, page 3 requested: page 2 comes
\* back with its 2 rows and total 7.
C10_Witness ==
    /\ Fetched
    /\ res.status = S_o /\ res.f = C_A /\ res.d = C_A
    /\ res.page = 3
    /\ Cardinality(FetchMatching) = 7
    /\ Val(res.out).page = 2
    /\ Val(res.out).total = 7
    /\ Len(Val(res.out).tasks) = 2
    /\ Val(res.out).queries = 2

\* what the listing contract says of a row under the query in res: owned by
\* user 1, of the status asked for, of the priority asked for (H, M, L in
\* either case; anything else is no filter), and the date filter: T = due on
\* the day of now, W = due in the week (Monday to Sunday) of now, O = due
\* before now, N = no due date, anything else = no filter
DayOf(t) == t \div MIN_PER_DAY
WeekOf(t) == (DayOf(t) + EPOCH_WEEKDAY) \div DAYS_PER_WEEK

QueryPriority ==
    CASE res.f \in {<<"H">>, <<"h">>} -> {"HIGH"}
      [] res.f \in {<<"M">>, <<"m">>} -> {"MEDIUM"}
      [] res.f \in {<<"L">>, <<"l">>} -> {"LOW"}
      [] OTHER -> TaskPriority

QueryWants(row) ==
    /\ row.user_id = 1
    /\ res.is_done # None => row.is_done = Val(res.is_done)
    /\ row.priority \in QueryPriority
    /\ res.d = C_T => row.due_date # None /\ DayOf(Val(row.due_date)) = DayOf(now)
    /\ res.d = C_W => row.due_date # None /\ WeekOf(Val(row.due_date)) = WeekOf(now)
    /\ res.d = C_O => row.due_date # None /\ Val(row.due_date) < now
    /\ res.d = C_N => row.due_date = None

QueryWanted == {i \in DOMAIN tasks : QueryWants(tasks[i])}

\* the sort key of the contract: open before done, with a due date before
\* without, ascending due date, descending creation time
QueryKey(row) ==
    << IF row.is_done THEN 1 ELSE 0,
       IF row.due_date = None THEN 1 ELSE 0,
       IF row.due_date = None THEN 0 ELSE Val(row.due_date),
       0 - row.created_at >>

LexLess(a, b) ==
    \E k \in 1..Len(a) : a[k] < b[k] /\ \A j \in 1..(k - 1) : a[j] = b[j]

QueryBefore(i, j) == LexLess(QueryKey(tasks[i]), QueryKey(tasks[j]))

QueryOffset == (res.page - 1) * res.per_page

\* C22: get_tasks_paginated returns only tasks of user_id that satisfy the
\* status, priority and date filters, total counts all of them, the rows are
\* the at most per_page ones from offset (page - 1) * per_page on, each
\* once, in the order open before done, due date before none, ascending due
\* date, descending creation time.
C22_ListingOrderAndFilter ==
    Queried =>
        /\ \A k \in DOMAIN Val(res.out).rows : Val(res.out).rows[k] \in QueryWanted
        /\ Val(res.out).total = Cardinality(QueryWanted)
        /\ Len(Val(res.out).rows) =
              Max(0, Min(res.per_page, Cardinality(QueryWanted) - QueryOffset))
        /\ \A k, l \in DOMAIN Val(res.out).rows :
              k < l => /\ Val(res.out).rows[k] # Val(res.out).rows[l]
                       /\ ~QueryBefore(Val(res.out).rows[l], Val(res.out).rows[k])
        /\ \A k \in DOMAIN Val(res.out).rows :
              /\ Cardinality({j \in QueryWanted : QueryBefore(j, Val(res.out).rows[k])})
                    <= QueryOffset + k - 1
              /\ Cardinality({j \in QueryWanted : ~QueryBefore(Val(res.out).rows[k], j)})
                    >= QueryOffset + k

\* the second page, of one row, of the overdue listing of two overdue
\* tasks, while a task of the caller is due at this very instant
C22_Witness ==
    /\ Queried
    /\ res.d = C_O /\ res.page = 2 /\ res.per_page = 1
    /\ Val(res.out).total = 2
    /\ Len(Val(res.out).rows) = 1
    /\ \E i \in DOMAIN tasks : tasks[i].user_id = 1 /\ tasks[i].due_date = Some(now)

\* ------------------------------------------------------------------------
\* Specification SpecBot: the bot driven by updates of the chat platform.
\* No call raises and the clock stands still (what the repository does as
\* time passes is the subject of Spec).
\* ------------------------------------------------------------------------
\* A snooze is taken only while the new due date stays within MaxBotDue.
MaxBotDue == 31

\* the cursor part the keyboards give a token: first page, no filter
AtCursor(prefix) == _join_kv(prefix, S_o, 1, C_A, C_A).data

\* ... and on a row of the list of done tasks, second page
AtDoneCursor(prefix) == _join_kv(prefix, S_d, 2, C_A, C_A).data

IdStrs == {IntToStr(i) : i \in TaskIds} \cup {<<"x">>}
MinuteStrs == {<<"1", "5">>, <<"a", "b", "c">>, <<"0">>}

\* callback data the chats send: what the keyboards built, and data that no
\* keyboard built (any client can send any string)
CallbackData ==
    {AtCursor(pre \o id) : pre \in {P_tact_done, P_tact_undo, P_tact_del,
                                     P_tact_edit, P_tact_snz},
                           id \in IdStrs}
    \cup {AtCursor(P_tsnz \o id \o <<":">> \o m) : id \in IdStrs, m \in MinuteStrs}
    \cup {AtCursor(P_tsnz \o <<"1">>)}
    \cup {AtCursor(P_tlist), _join_kv(P_tlist, S_d, 2, C_H, C_N).data, P_tlist,
          D_noop, D_noop_listing, D_cancel_delete}
    \cup {_join_kv(P_tact_edit \o <<"1">>, S_d, 2, C_H, C_N).data}
    \cup {AtDoneCursor(P_tact_done \o <<"1">>), AtDoneCursor(P_tact_undo \o <<"1">>),
          AtDoneCursor(P_tsnz \o <<"1", ":", "1", "5">>),
          AtDoneCursor(P_tact_snz \o <<"1">>), AtDoneCursor(P_tlist)}
    \cup {pre \o id : pre \in {P_done, P_delete, P_confirm_delete}, id \in IdStrs}
    \cup {P_due \o D_none, P_due \o <<"x">>,
          P_priority \o <<"l", "o", "w">>, P_priority \o <<"x">>}

\* a text longer than the column `content`
LongText == [i \in 1..(CONTENT_MAX + 1) |-> "x"]

MessageTexts ==
    {ADD_TASK_TEXT, LIST_TRIGGER, CMD_CANCEL, <<"a", "b">>,
     <<" ", "a", "b", " ", " ", "c">>, LongText}

\* the state after the run c of handler h on the update (kind, tg, data);
\* again: the update is a second delivery of the one handled just before
Finish(h, kind, tg, data, again, c) ==
    /\ c.db.nextId <= MaxTasks + 1
    /\ \A i \in DOMAIN c.db.tasks :
          (i \in DOMAIN tasks /\ c.db.tasks[i].due_date # tasks[i].due_date)
              => Val(c.db.tasks[i].due_date) <= MaxBotDue
    /\ tasks' = c.db.tasks
    /\ users' = c.db.users
    /\ nextId' = c.db.nextId
    /\ fsm' = [fsm EXCEPT ![tg] = c.fsm]
    /\ out' = [handler |-> h, kind |-> kind, tg |-> tg, data |-> data,
               trace |-> c.trace, escaped |-> c.exc, again |-> again]
    /\ UNCHANGED <<now, last, res, sessions>>

\* rows with equal sort keys exist only when there are two rows
TieBreakPairs ==
    IF Cardinality(DOMAIN tasks) < 2 THEN {<<"id_asc", "id_asc">>}
    ELSE TieBreaks \X TieBreaks

\* the run raises at its fault-th call, so it makes at least that many
Raises(c, fault) ==
    IF fault = MaxFault + 1
    THEN \E i \in DOMAIN c.trace :
            c.trace[i].k = "create_or_update_user" /\ ~c.trace[i].ok
    ELSE LastFault(fault) <= c.n

\* the run c of handler h ends the update
Handled(h, kind, tg, data, fault, again, c) ==
    /\ Raises(c, fault)
    /\ Finish(h, kind, tg, data, again, c)

CallbackRouted(h, tg, data, fault, tb, again) ==
    /\ h \in CallbackHandlers
    /\ Handled(h, "callback", tg, data, fault, again,
               RunCallback(h, NewCtx(tg, fault, tb), data))

MessageRouted(h, tg, text, fault, tb) ==
    /\ h \in MessageHandlers
    /\ Handled(h, "message", tg, text, fault, FALSE,
               RunMessage(h, NewCtx(tg, fault, tb), text))

\* a callback query from chat tg; the fault-th call of the handler raises.
\* again: the callback query handled last is delivered once more (a double
\* tap, a retry of the platform) and is handled before any other update
CallbackUpdate(tg, data, fault, tb, again) ==
    /\ IF again
       THEN out.kind = "callback" /\ ~out.again /\ out.tg = tg /\ out.data = data
       ELSE out = NoOut
    /\ CallbackRouted(RouteCallback(data), tg, data, fault, tb, again)

\* a text message from chat tg
MessageUpdate(tg, text, fault, tb) ==
    /\ out = NoOut
    /\ MessageRouted(RouteMessage(text, fsm[tg].state), tg, text, fault, tb)

\* the dispatcher is done with the update and waits for the next
UpdateDone ==
    /\ out # NoOut
    /\ out' = NoOut
    /\ UNCHANGED <<tasks, nextId, now, last, res, users, fsm, sessions>>

NextBot ==
    \/ \E tg \in TgUsers, data \in CallbackData, tb \in TieBreakPairs, again \in BOOLEAN :
          CallbackUpdate(tg, data, 0, tb, again)
    \/ \E tg \in TgUsers, text \in MessageTexts, tb \in TieBreakPairs :
          MessageUpdate(tg, text, 0, tb)
    \/ UpdateDone

SpecBot == Init /\ [][NextBot]_vars

\* ------------------------------------------------------------------------
\* Specification SpecFault: the same updates, and in each run one call to
\* the repository or to the chat platform may raise, or two calls in a
\* row; the clock stands still
\* ------------------------------------------------------------------------
\* the updates of well-behaved chats: what the keyboards and buttons offer
FaultCallbackData ==
    {AtCursor(pre \o <<"1">>) : pre \in {P_tact_done, P_tact_undo, P_tact_del,
                                         P_tact_edit, P_tact_snz}}
    \cup {AtCursor(P_tsnz \o <<"1", ":", "1", "5">>), AtCursor(P_tlist),
          P_done \o <<"1">>, P_confirm_delete \o <<"1">>,
          P_due \o D_none, P_priority \o <<"l", "o", "w">>}

FaultMessageTexts == {ADD_TASK_TEXT, LIST_TRIGGER, <<" ", "a", "b", " ", " ", "c">>}

NextFault ==
    \/ \E tg \in TgUsers, data \in FaultCallbackData, fault \in 0..(2 * MaxFault + 1),
          tb \in TieBreakPairs :
          CallbackUpdate(tg, data, fault, tb, FALSE)
    \/ \E tg \in TgUsers, text \in FaultMessageTexts, fault \in 0..(2 * MaxFault + 1),
          tb \in TieBreakPairs :
          MessageUpdate(tg, text, fault, tb)
    \/ UpdateDone

SpecFault == Init /\ [][NextFault]_vars

\* ------------------------------------------------------------------------
\* Properties of the handlers (SpecBot, SpecFault)
\* ------------------------------------------------------------------------
ChatKinds == {"cb.answer", "message.answer", "edit_text", "edit_reply_markup"}

MutationKinds ==
    {"set_task_done", "delete_task_by_id", "snooze_task_by_id", "update_task_content",
     "create_task"}

\* the run told the chat `text`
Told(tr, text) ==
    \E i \in DOMAIN tr : tr[i].k \in ChatKinds /\ tr[i].ok /\ tr[i].text = text

\* the run made the repository call k and it returned TRUE
Did(tr, k) == \E i \in DOMAIN tr : tr[i].k = k /\ tr[i].ok /\ tr[i].ret

\* the step handles the second delivery of a snooze-apply callback whose
\* first delivery moved a due date
C4_SecondDelivery ==
    /\ out.handler = "act_snooze_apply" /\ ~out.again
    /\ Did(out.trace, "snooze_task_by_id")
    /\ out'.handler = "act_snooze_apply" /\ out'.again

\* C4: when the same snooze-apply callback is delivered a second time, the
\* second delivery leaves every due date as the first delivery left it, or
\* it is answered with the failure notice; a due date never moves twice.
C4_DuplicateSnoozeMovesOnce ==
    [][C4_SecondDelivery =>
          \/ \A i \in DOMAIN tasks :
                i \in DOMAIN tasks' /\ tasks'[i].due_date = tasks[i].due_date
          \/ Told(out'.trace, "error")]_vars

\* the task id a tact:<verb>:<id> token carries
C5_TaskId(data) == TactId(_parse_kv(data).head)

\* the step handles a callback tact:del:<id>;... for a task the caller owns
C5_DeleteOwned ==
    /\ out = NoOut
    /\ out'.kind = "callback"
    /\ StartsWith(out'.data, P_tact_del)
    /\ C5_TaskId(out'.data) # None
    /\ out'.tg \in DOMAIN users
    /\ WhereIdUser(tasks, Val(C5_TaskId(out'.data)), users[out'.tg].id)

\* C5: one callback tact:del:<id>;s=..;p=..;f=..;d=.. for a task of the
\* caller runs delete_task_by_id for it and renders the list again: the row
\* is gone from the table and the list was sent.
C5_DeleteFromListing ==
    [][C5_DeleteOwned =>
          /\ Did(out'.trace, "delete_task_by_id")
          /\ Val(C5_TaskId(out'.data)) \notin DOMAIN tasks'
          /\ Told(out'.trace, "list")]_vars

\* the handlers of list_tasks.py that decode a token
C6_Handlers ==
    {"on_list_nav", "act_done", "act_undo", "act_delete", "act_edit_start",
     "act_snooze_open", "act_snooze_apply"}

\* the token grammar: tact:<verb>:<int>  and  tsnz:<int>:<int greater than 0>
C6_Malformed(data) ==
    LET parts == Split(_parse_kv(data).head, ":", 2)
    IN IF StartsWith(data, P_tsnz)
       THEN \/ Len(parts) # 3
            \/ ParseInt(parts[2]) = None
            \/ ParseInt(parts[3]) = None
            \/ Val(ParseInt(parts[3])) <= 0
       ELSE IF StartsWith(data, <<"t", "a", "c", "t", ":">>)
       THEN Len(parts) # 3 \/ ParseInt(parts[3]) = None
       ELSE FALSE

\* C6: a callback payload with a task id that is no number, or a minutes
\* field that is no number or not positive, raises nothing, is answered with
\* the invalid-data notice and runs no repository mutation.
C6_BadTokenRejected ==
    (out.kind = "callback" /\ out.handler \in C6_Handlers /\ C6_Malformed(out.data))
        => /\ ~out.escaped
           /\ Told(out.trace, "invalid")
           /\ \A i \in DOMAIN out.trace : out.trace[i].k \notin MutationKinds

\* the entry points of the listing subsystem that are to catch everything
C7_Handlers ==
    {"on_list_nav", "act_done", "act_undo", "act_delete", "act_edit_save",
     "act_snooze_open", "act_snooze_apply"}

\* C7: when a repository call, a commit or a chat call of a listing handler
\* raises, the exception does not leave the handler.
C7_CatchAllBoundary ==
    (out.handler \in C7_Handlers /\ \E i \in DOMAIN out.trace : ~out.trace[i].ok)
        => ~out.escaped

\* C8: every chat call of a handler is made while no transaction of that
\* handler is open.
C8_NoChatCallInTransaction ==
    \A i \in DOMAIN out.trace : out.trace[i].k \in ChatKinds => ~out.trace[i].tx

\* --- failing user resolution (SpecFault)
C20_Renderers == {"entry_list", "on_list_nav"}
C20_Mutators == {"act_done", "act_undo", "act_delete", "act_snooze_apply"}

\* the run tried to map the user and no attempt gave an id: each upsert
\* raised, or the commit after it did
MappingTried(tr) == \E i \in DOMAIN tr : tr[i].k = "create_or_update_user"
Mapped(tr) ==
    \E i \in DOMAIN tr :
        /\ tr[i].k = "create_or_update_user" /\ tr[i].ok
        /\ (i + 1) \in DOMAIN tr /\ tr[i + 1].k = "commit" /\ tr[i + 1].ok
MappingFailed(tr) == MappingTried(tr) /\ ~Mapped(tr)

\* C20: when the mapping of the chat user to a users.id fails, the listing
\* renderer sends the account-not-recognized message (the chat call is
\* made), sends no list and reads no tasks, and act_done, act_undo, act_delete and act_snooze_apply
\* run no repository mutation.
C20_UserResolutionFailure ==
    (out.handler \in C20_Renderers \cup C20_Mutators /\ MappingFailed(out.trace)) =>
        /\ \A i \in DOMAIN out.trace :
              /\ out.trace[i].k \notin MutationKinds
              /\ out.trace[i].k # "get_tasks_paginated"
              /\ out.trace[i].text # "list"
        /\ \E i \in DOMAIN out.trace :
              out.trace[i].k \in ChatKinds /\ out.trace[i].text = "unidentified"

\* the list was asked for while the users table could not be reached: the
\* handler and then the renderer tried to map the user, both failed
C20_Witness ==
    /\ out.handler = "entry_list"
    /\ Len(out.trace) = 5
    /\ out.trace[1].k = "create_or_update_user" /\ ~out.trace[1].ok
    /\ out.trace[3].k = "create_or_update_user" /\ ~out.trace[3].ok
    /\ out.trace[5].k = "message.answer" /\ out.trace[5].text = "unidentified"
    /\ DOMAIN tasks # {}

\* --- status partition of the listings (Spec)
\* task i is on some page of its owner's listing with this status, no
\* priority filter and no date filter, read from the table ts at time t
InListing(ts, t, i, status) ==
    \E page \in 1..Cardinality(DOMAIN ts) : \E tb \in TieBreaks :
        \E k \in DOMAIN _fetch_page(ts, ts[i].user_id, status, page, C_A, C_A, t,
                                    tb, tb).tasks :
            _fetch_page(ts, ts[i].user_id, status, page, C_A, C_A, t, tb, tb).tasks[k] = i

\* the done flag task i has after the step: what a successful set_task_done
\* of the step set, else what it was before (FALSE for a new task)
DoneAfterStep(i) ==
    IF last'.op = "set_task_done" /\ last'.task_id = i /\ last'.ret
    THEN Val(last'.arg)
    ELSE i \in DOMAIN tasks /\ tasks[i].is_done

\* C21: after a successful set_task_done(true) on a task, and until it is
\* undone or deleted, the task is in its owner's listing with status 'd'
\* and not in the one with status 'o'; after set_task_done(false), and for
\* a new task, it is only in the one with status 'o'.
C21_StatusPartition ==
    [][\A i \in DOMAIN tasks' :
          /\ InListing(tasks', now', i, S_d) = DoneAfterStep(i)
          /\ InListing(tasks', now', i, S_o) = ~DoneAfterStep(i)]_vars

\* a task marked done earlier was given a new content since, and is still
\* listed as done only
C21_Witness ==
    /\ last.op = "update_task_content" /\ last.ret
    /\ tasks[last.task_id].is_done
    /\ tasks[last.task_id].updated_at > Val(tasks[last.task_id].done_at)
    /\ InListing(tasks, now, last.task_id, S_d)
    /\ ~InListing(tasks, now, last.task_id, S_o)

\* --- content validation of the repository (Spec)
\* the step is a call of create_task, or of update_task_content for a row
\* of the caller
ContentCallStep ==
    /\ IsCallStep
    /\ \/ last'.op = "create_task"
       \/ /\ last'.op = "update_task_content"
          /\ WhereIdUser(tasks, last'.task_id, last'.user_id)

\* the row the call wrote: the new one, or the one addressed
ContentCallRow == IF last'.op = "create_task" THEN nextId ELSE last'.task_id

\* C18: create_task and update_task_content store the content trimmed and
\* capped at 255 characters, and when the trimmed content has fewer than 3
\* characters they fail and store nothing.
C18_RepositoryContentValidation ==
    [][ContentCallStep =>
          IF Len(Strip(Val(last'.arg))) < CONTENT_MIN
          THEN last'.raised /\ tasks' = tasks
          ELSE /\ ContentCallRow \in DOMAIN tasks'
               /\ tasks'[ContentCallRow].content =
                     Truncate(Strip(Val(last'.arg)), CONTENT_MAX)]_vars

\* --- the edit flow (act_edit_start, act_edit_save)
EDIT_WAITING == "EditTask:waiting_for_new_content"

\* chat tg has an edit session open on a task
EditSessionOpen(tg) == fsm[tg].state = EDIT_WAITING /\ "task_id" \in DOMAIN fsm[tg].data

\* the step handles a text message of a chat whose edit session is open
EditMessageStep ==
    /\ out = NoOut
    /\ out'.kind = "message"
    /\ EditSessionOpen(out'.tg)

\* a text that is no button caption and no command
FreeText(text) ==
    /\ text \notin {ADD_TASK_TEXT, LIST_TRIGGER}
    /\ ~StartsWith(text, <<"/">>)

\* the page _show_list renders for chat tg at the cursor kept in data, read
\* from the tables after the step
EditPageShown(tg, data) ==
    _fetch_page(tasks', users'[tg].id, data.s, data.p, data.f, data.d, now,
                "id_asc", "id_asc")

ListSentAs(tr, pg) ==
    \E i \in DOMAIN tr :
        /\ tr[i].k = "message.answer" /\ tr[i].ok /\ tr[i].text = "list"
        /\ tr[i].page = pg.page /\ tr[i].rows = pg.tasks /\ tr[i].total = pg.total

\* the task the open edit session of chat tg names is a task of that chat
EditsOwnTask(tg) ==
    /\ tg \in DOMAIN users
    /\ WhereIdUser(tasks, fsm[tg].data.task_id, users[tg].id)

\* C15: while an edit session opened by an edit token is open, a free text
\* of valid length from that chat is handled by act_edit_save: it runs
\* update_task_content for the task of the session with the trimmed text
\* (which becomes the content when the task is the caller's), the session
\* is cleared whether or not a row was affected, and the list is sent at
\* the cursor the session kept.
C15_EditFlowCompletes ==
    [][(EditMessageStep /\ FreeText(out'.data) /\ Len(Strip(out'.data)) >= 3) =>
          /\ out'.handler = "act_edit_save"
          /\ \E i \in DOMAIN out'.trace :
                /\ out'.trace[i].k = "update_task_content" /\ out'.trace[i].ok
                /\ out'.trace[i].tid = fsm[out'.tg].data.task_id
                /\ out'.trace[i].ret = EditsOwnTask(out'.tg)
          /\ EditsOwnTask(out'.tg) =>
                tasks'[fsm[out'.tg].data.task_id].content =
                    Truncate(Strip(out'.data), CONTENT_MAX)
          /\ ~EditsOwnTask(out'.tg) => tasks' = tasks
          /\ fsm'[out'.tg] = NoFsm
          /\ ListSentAs(out'.trace, EditPageShown(out'.tg, fsm[out'.tg].data))]_vars

\* an edit saved from a session opened at a cursor other than the default:
\* the list of done tasks is shown, which does not hold the edited task
C15_Witness ==
    /\ out.handler = "act_edit_save"
    /\ Did(out.trace, "update_task_content")
    /\ Told(out.trace, "edited")
    /\ fsm[out.tg] = NoFsm
    /\ \E i \in DOMAIN out.trace :
          out.trace[i].text = "list" /\ out.trace[i].rows = <<>>
    /\ \E i \in DOMAIN tasks : tasks[i].content = <<"a", "b", " ", " ", "c">>

\* C16: while an edit session is open, a message whose trimmed text has
\* fewer than 3 characters is answered with the too-short notice, runs no
\* repository mutation, leaves every task as it was, and leaves the session
\* awaiting the new content with the data it had.
C16_EditValidation ==
    [][(EditMessageStep /\ FreeText(out'.data) /\ Len(Strip(out'.data)) < 3) =>
          /\ out'.handler = "act_edit_save"
          /\ Told(out'.trace, "too_short")
          /\ \A i \in DOMAIN out'.trace : out'.trace[i].k \notin MutationKinds
          /\ tasks' = tasks
          /\ fsm'[out'.tg] = fsm[out'.tg]]_vars

\* a two-character text was rejected while the session of an existing task
\* stays open
C16_Witness ==
    /\ out.handler = "act_edit_save"
    /\ out.data = <<"a", "b">>
    /\ Told(out.trace, "too_short")
    /\ EditSessionOpen(out.tg)
    /\ fsm[out.tg].data.task_id \in DOMAIN tasks

\* C17: while an edit session is open, the message "/cancel" ends the
\* session and leaves the content of every task as it was.
C17_EditCancel ==
    [][(EditMessageStep /\ out'.data = CMD_CANCEL) =>
          /\ fsm'[out'.tg] = NoFsm
          /\ \A i \in DOMAIN tasks :
                i \in DOMAIN tasks' /\ tasks'[i].content = tasks[i].content]_vars

\* --- done, undo and snooze-apply (SpecBot)
C26_Handlers == {"act_done", "act_undo", "act_snooze_apply"}

\* the repository call each of them is to make
C26_Mutation ==
    [act_done |-> "set_task_done", act_undo |-> "set_task_done",
     act_snooze_apply |-> "snooze_task_by_id"]

\* the task id and the minutes in the token p of handler h, if it has them
ActArgs(h, p) ==
    IF h = "act_snooze_apply" THEN SnoozeArgs(p.head)
    ELSE IF TactId(p.head) = None THEN None
    ELSE Some([tid |-> Val(TactId(p.head)), mins |-> 0])

\* what the matching repository call makes of the table ts
ActTable(h, ts, uid, a, t) ==
    CASE h = "act_done" -> set_task_done(ts, uid, a.tid, TRUE, t).tbl
      [] h = "act_undo" -> set_task_done(ts, uid, a.tid, FALSE, t).tbl
      [] OTHER -> snooze_task_by_id(ts, uid, a.tid, a.mins, t).tbl

\* the list went out as an edit showing the page pg
ListEditedAs(tr, pg) ==
    \E i \in DOMAIN tr :
        /\ tr[i].k = "edit_text" /\ tr[i].ok /\ tr[i].text = "list"
        /\ tr[i].page = pg.page /\ tr[i].rows = pg.tasks /\ tr[i].total = pg.total

\* the run tr of handler h on the token (a: its task id and minutes, k: its
\* cursor) by the user uid took the table ts to ts1 as the claim says
ActDone(h, tr, a, k, uid, ts, ts1, t) ==
    /\ Cardinality({i \in DOMAIN tr : tr[i].k \in MutationKinds}) = 1
    /\ \E i \in DOMAIN tr :
          tr[i].k = C26_Mutation[h] /\ tr[i].ok /\ tr[i].tid = a.tid
    /\ ts1 = ActTable(h, ts, uid, a, t)
    /\ \E tb \in TieBreakPairs :
          ListEditedAs(tr, _fetch_page(ts1, uid, k.s, k.p, k.f, k.d, t, tb[1], tb[2]))

ActChecked(h, p) ==
    ActArgs(h, p) # None =>
        ActDone(h, out'.trace, Val(ActArgs(h, p)), _ctx_from_kv(p.kv),
                users'[out'.tg].id, tasks, tasks', now)

\* C26: act_done, act_undo and act_snooze_apply, given a token that names a
\* task, make the matching repository call exactly once, for that task, and
\* no other mutation, and then render the list at the status, the filters
\* and the (clamped) page of the token, whether or not the call affected a
\* row.
C26_ActionKeepsCursor ==
    [][(out = NoOut /\ out'.handler \in C26_Handlers) =>
          ActChecked(out'.handler, _parse_kv(out'.data))]_vars

\* a task was reopened from the list of done tasks: the list is shown again
\* at that status, where the task no longer is
C26_Witness ==
    /\ out.handler = "act_undo" /\ out.data = AtDoneCursor(P_tact_undo \o <<"1">>)
    /\ Did(out.trace, "set_task_done")
    /\ tasks # <<>>
    /\ \E i \in DOMAIN out.trace :
          /\ out.trace[i].k = "edit_text" /\ out.trace[i].ok
          /\ out.trace[i].text = "list" /\ out.trace[i].rows = <<>>

\* --- the two taps of a snooze (SpecBot)
C27_Deltas == <<15, 60, 1440, 4320, 10080>>

\* the tokens kb are the snooze menu of task tid at the cursor k: one
\* snooze-apply token per delta and the list token, all at that cursor
IsSnoozeMenu(kb, tid, k) ==
    /\ Len(kb) = Len(C27_Deltas) + 1
    /\ \A j \in 1..Len(C27_Deltas) :
          /\ RouteCallback(kb[j]) = "act_snooze_apply"
          /\ SnoozeArgs(_parse_kv(kb[j]).head) = Some([tid |-> tid, mins |-> C27_Deltas[j]])
          /\ _ctx_from_kv(_parse_kv(kb[j]).kv) = k
    /\ RouteCallback(kb[Len(kb)]) = "on_list_nav"
    /\ _ctx_from_kv(_parse_kv(kb[Len(kb)]).kv) = k

\* the run tr mutated nothing
NoMutation(tr) == \A i \in DOMAIN tr : tr[i].k \notin MutationKinds

\* the first tap: the run tr of act_snooze_open on the token p
SnoozeOpened(tr, p) ==
    TactId(p.head) # None =>
        /\ NoMutation(tr)
        /\ \A i \in DOMAIN tr : tr[i].text # "list"
        /\ \E i \in DOMAIN tr :
              /\ tr[i].k = "edit_reply_markup" /\ tr[i].ok
              /\ IsSnoozeMenu(tr[i].rows, Val(TactId(p.head)), _ctx_from_kv(p.kv))

\* the cancel button: the run tr of on_list_nav on a list token at cursor k
ListReissued(tr, k, uid, ts, t) ==
    /\ NoMutation(tr)
    /\ \E tb \in TieBreakPairs :
          ListEditedAs(tr, _fetch_page(ts, uid, k.s, k.p, k.f, k.d, t, tb[1], tb[2]))

\* C27: the first tap of a snooze (token tact:snz) mutates no task and only
\* replaces the keyboard by the menu of 15, 60, 1440, 4320 and 10080
\* minutes and cancel, every button with the task id and the cursor of the
\* token; the cancel button is the list token of that cursor, which renders
\* the list without a mutation; a due date changes only in a run of
\* act_snooze_apply.
C27_TwoTapSnooze ==
    [][/\ (out = NoOut /\ out'.handler = "act_snooze_open") =>
             /\ tasks' = tasks
             /\ SnoozeOpened(out'.trace, _parse_kv(out'.data))
       /\ (out = NoOut /\ out'.handler = "on_list_nav") =>
             /\ tasks' = tasks
             /\ ListReissued(out'.trace, _ctx_from_kv(_parse_kv(out'.data).kv),
                             users'[out'.tg].id, tasks', now)
       /\ \A i \in DOMAIN tasks :
             (i \in DOMAIN tasks' /\ tasks'[i].due_date # tasks[i].due_date)
                 => out'.handler = "act_snooze_apply"]_vars

\* the snooze menu of a task was opened from the second page of the done
\* list: its cancel button is the list token of that cursor
C27_Witness ==
    /\ out.handler = "act_snooze_open"
    /\ out.data = AtDoneCursor(P_tact_snz \o <<"1">>)
    /\ tasks # <<>>
    /\ \E i \in DOMAIN out.trace :
          /\ out.trace[i].k = "edit_reply_markup" /\ out.trace[i].ok
          /\ out.trace[i].rows[Len(C27_Deltas) + 1] = AtDoneCursor(P_tlist)

\* --- the order of the add-task flow (SpecBot)
ADD_CONTENT == "AddTask:waiting_for_content"
ADD_DUE == "AddTask:waiting_for_due_date"
ADD_CUSTOM == "AddTask:waiting_for_custom_date"
ADD_PRIORITY == "AddTask:waiting_for_priority"
AddStates == {ADD_CONTENT, ADD_DUE, ADD_CUSTOM, ADD_PRIORITY}

\* the run tr stored a new task
Created(tr) == \E i \in DOMAIN tr : tr[i].k = "create_task" /\ tr[i].ok

\* the state the session has to be in for the button to be taken
ButtonState(data) ==
    IF StartsWith(data, P_due) THEN {ADD_DUE}
    ELSE IF StartsWith(data, P_priority) THEN {ADD_PRIORITY}
    ELSE {}

\* C30: a task is stored by the add-task flow only in a step taken in
\* waiting_for_priority, which is entered only from waiting_for_due_date or
\* waiting_for_custom_date, which are entered only from waiting_for_content
\* with a content of at least 3 characters (from waiting_for_due_date for
\* the custom date); a "due:" or "priority:" button pressed in any other
\* state stores no task and does not bring the session into the flow.
C30_AddTaskFlowOrder ==
    [][out = NoOut =>
          /\ Created(out'.trace) => fsm[out'.tg].state = ADD_PRIORITY
          /\ (fsm'[out'.tg].state = ADD_PRIORITY /\ fsm[out'.tg].state # ADD_PRIORITY)
                => fsm[out'.tg].state \in {ADD_DUE, ADD_CUSTOM}
          /\ (fsm'[out'.tg].state = ADD_CUSTOM /\ fsm[out'.tg].state # ADD_CUSTOM)
                => fsm[out'.tg].state = ADD_DUE
          /\ (fsm'[out'.tg].state = ADD_DUE /\ fsm[out'.tg].state # ADD_DUE)
                => /\ fsm[out'.tg].state = ADD_CONTENT
                   /\ Len(fsm'[out'.tg].data.content) >= CONTENT_MIN
          /\ (out'.kind = "callback" /\ ButtonState(out'.data) # {}
                 /\ fsm[out'.tg].state \notin ButtonState(out'.data))
                => /\ tasks' = tasks
                   /\ fsm[out'.tg].state \notin AddStates
                         => fsm'[out'.tg].state \notin AddStates]_vars

\* --- the length of the stored contents (SpecBot)
\* C25: whatever add-task flows and edit flows the chats drive through the
\* handlers, every stored task has a content of 3 to 255 characters.
C25_ContentLength ==
    \A i \in DOMAIN tasks :
        Len(tasks[i].content) >= CONTENT_MIN /\ Len(tasks[i].content) <= CONTENT_MAX

\* the edit flow has stored a text that was longer than the column
C25_Witness ==
    /\ out.handler = "act_edit_save" /\ out.data = LongText
    /\ Did(out.trace, "update_task_content")
    /\ \E i \in DOMAIN tasks : Len(tasks[i].content) = CONTENT_MAX

\* --- navigation reads only (SpecBot)
\* the update is a list-navigation token, the list text trigger or a no-op
IsNoop(kind, data) == kind = "callback" /\ data \in {D_noop, D_noop_listing}

IsNavigation(kind, data) ==
    \/ kind = "callback" /\ StartsWith(data, P_tlist)
    \/ kind = "message" /\ data = LIST_TRIGGER
    \/ IsNoop(kind, data)

\* the run made no call that writes a task
ReadOnly(tr) == \A i \in DOMAIN tr : tr[i].k \notin MutationKinds

\* the run only answered the callback
OnlyAnswered(tr) == Len(tr) = 1 /\ tr[1].k = "cb.answer"

\* C35: handling a list-navigation token, the list text trigger or a no-op
\* token changes no task row and creates or deletes no task; a no-op token
\* makes no repository call and only answers the callback.
C35_ReadOnlyNavigation ==
    [][(out = NoOut /\ out' # NoOut /\ IsNavigation(out'.kind, out'.data)) =>
          /\ tasks' = tasks /\ nextId' = nextId
          /\ ReadOnly(out'.trace)
          /\ IsNoop(out'.kind, out'.data) =>
                OnlyAnswered(out'.trace) /\ users' = users]_vars

\* the bare no-op token was handled while the user had a task
C35_Witness ==
    /\ out.handler = "noop_listing" /\ out.data = D_noop
    /\ OnlyAnswered(out.trace) /\ out.trace[1].ok
    /\ tasks # <<>>

\* --- the confirmation of a stored task (SpecFault)
\* C34: the add-task flow tells the chat that the task was saved only if the
\* transaction that inserted the task committed.
C34_TruthfulSaveConfirmation ==
    Told(out.trace, "saved") =>
        \E j \in DOMAIN out.trace :
            out.trace[j].k = "commit" /\ out.trace[j].ok /\ Did(out.trace, "create_task")

\* --- how the rendered list goes out (SpecFault)
IsList(ev) == ev.text = "list"

SamePage(a, b) == a.page = b.page /\ a.rows = b.rows /\ a.total = b.total

\* C24: a listing asked for by a button press is first sent as an edit of
\* the message the button is on; when that edit raises, the same page is
\* sent as a new message, and when that raises too the handler goes on and
\* answers the callback; a listing asked for by a text message is sent as
\* a new message and never as an edit.
C24_RenderFallback ==
    LET tr == out.trace IN
    /\ out.kind = "callback" =>
          \A i \in DOMAIN tr : IsList(tr[i]) =>
              /\ tr[i].k \in {"edit_text", "message.answer"}
              /\ tr[i].k = "message.answer" =>
                    /\ i > 1 /\ IsList(tr[i - 1])
                    /\ tr[i - 1].k = "edit_text" /\ ~tr[i - 1].ok
              /\ tr[i].k = "edit_text" =>
                    /\ \A j \in 1..(i - 1) : ~IsList(tr[j])
                    /\ IF tr[i].ok
                       THEN \A j \in DOMAIN tr : IsList(tr[j]) => j = i
                       ELSE /\ (i + 1) \in DOMAIN tr
                            /\ IsList(tr[i + 1]) /\ tr[i + 1].k = "message.answer"
                            /\ SamePage(tr[i], tr[i + 1])
                            /\ (i + 2) \in DOMAIN tr /\ tr[i + 2].k = "cb.answer"
                            /\ \A j \in DOMAIN tr : j > i + 1 => ~IsList(tr[j])
                            /\ ~out.escaped
    /\ out.kind = "message" =>
          \A i \in DOMAIN tr : IsList(tr[i]) =>
              /\ tr[i].k = "message.answer"
              /\ \A j \in DOMAIN tr : IsList(tr[j]) => j = i

\* a button press whose edit raised and whose fallback message raised too
C24_Witness ==
    /\ out.kind = "callback" /\ ~out.escaped
    /\ \E i \in DOMAIN out.trace :
          /\ IsList(out.trace[i]) /\ out.trace[i].k = "edit_text" /\ ~out.trace[i].ok
          /\ (i + 1) \in DOMAIN out.trace
          /\ IsList(out.trace[i + 1]) /\ ~out.trace[i + 1].ok
          /\ out.trace[i].rows # <<>>

\* ------------------------------------------------------------------------
\* Specification SpecCodec: the callback-data codec applied to bounded
\* inputs.  A token is encoded from its fields, then decoded again.
\* ------------------------------------------------------------------------
MaxCodecPage == 10
MaxCodecId == 12

\* the action names of the row buttons
A_done == <<"d", "o", "n", "e">>
A_undo == <<"u", "n", "d", "o">>
A_del == <<"d", "e", "l">>
A_edit == <<"e", "d", "i", "t">>
A_snz == <<"s", "n", "z">>
ActionKinds == {A_done, A_undo, A_del, A_edit, A_snz}

StatusCodes == {S_o, S_d}
PrioCodes == {C_A, C_H, C_M, C_L}
DateCodes == {C_A, C_T, C_W, C_O, C_N}

CodecPages == {1, 2, MaxCodecPage}
CodecIds == {1, MaxCodecId}

\* the fields of a token: kind "tlist", "tact" (with action and task id) or
\* "tsnz" (with task id and the option-th minutes of the snooze keyboard)
CodecInput(kind, action, tid, option, s, p, f, d) ==
    [op |-> "codec", kind |-> kind, action |-> action, tid |-> tid, option |-> option,
     s |-> s, p |-> p, f |-> f, d |-> d, token |-> None, out |-> None]

\* a cursor, and the filter (which: "f" or "d") whose cycle button will be
\* pressed; visited: the values that filter had
CycleInput(which, s, f, d) ==
    [op |-> "cycle", which |-> which, cur |-> [s |-> s, p |-> 1, f |-> f, d |-> d],
     visited |-> <<IF which = "f" THEN f ELSE d>>]

\* the arguments of one build_listing_keyboard
FrameInput(ids, s, p, total, f, d) ==
    [op |-> "frame", ids |-> ids, s |-> s, p |-> p, total |-> total, f |-> f, d |-> d,
     out |-> None]

\* a callback token received by handler h (on_list_nav, act_snooze_open),
\* which builds a keyboard at the cursor of the token; ids: the tasks on the
\* page, total: how many there are
EmitInput(h, data, ids, total) ==
    [op |-> "emit", handler |-> h, data |-> data, ids |-> ids, total |-> total,
     out |-> None]

\* the longest date filter a "tact:snz:" token of CB_MAX characters can carry
LongDate ==
    [i \in 1..(CB_MAX - Len(_join_kv(P_tact_snz \o <<"1">>, S_o, 1, C_A, <<>>).data)) |-> "z"]

\* tokens a chat sends: those of the keyboards, and tokens within the limit
\* of the platform that carry a long date filter
ReceivedTokens ==
    {_join_kv(pre, S_d, MaxCodecPage, C_L, d).data :
        pre \in {P_tlist, P_tact_snz \o IntToStr(MaxCodecId)}, d \in {C_N, C_A}}
    \cup {_join_kv(P_tact_snz \o <<"1">>, S_o, 1, C_A, LongDate).data,
          _join_kv(P_tlist, S_o, 1, C_A, LongDate).data}

\* --- handlers/list_tasks.py _fmt_due_local.  Instants are counted here in
\* parts of a second (SubSec to the second), since a datetime carries them
\* and int(delta.total_seconds()) drops them.
SubSec == 2
PerMinute == 60 * SubSec
PerHour == MIN_PER_HOUR * PerMinute
PerDay == MIN_PER_DAY * PerMinute
HOURS_PER_DAY == 24

\* int(x / n): towards zero
IntTrunc(x, n) == IF x >= 0 THEN x \div n ELSE 0 - ((0 - x) \div n)

\* dt.astimezone(LOCAL_TZ): the local wall clock; .date(); strftime('%H:%M')
LocalOf(t) == t + LOCAL_OFFSET * PerMinute
DateOf(local) == local \div PerDay
ClockOf(local) ==
    [hh |-> (local % PerDay) \div PerHour, mm |-> ((local % PerDay) % PerHour) \div PerMinute]

DueText(form, n, clock) == [form |-> form, n |-> n, clock |-> clock]
NoClock == [hh |-> 0, mm |-> 0]

\* f"... ({days} روز)" when hours >= 24, f"... ({hours} ساعت)" otherwise
DaysOrHours(form, hours) ==
    IF hours >= HOURS_PER_DAY
    THEN DueText(form \o "_days", hours \div HOURS_PER_DAY, NoClock)
    ELSE DueText(form \o "_hours", hours, NoClock)

\* the branch on secs = int(delta.total_seconds())
FmtDelta(delta) ==
    IF IntTrunc(delta, SubSec) < 0
    THEN DaysOrHours("overdue", (0 - IntTrunc(delta, SubSec)) \div (60 * MIN_PER_HOUR))
    ELSE DaysOrHours("in", IntTrunc(delta, SubSec) \div (60 * MIN_PER_HOUR))

\* _fmt_due_local(due_utc) called at the instant now_t
_fmt_due_local(due_utc, now_t) ==
    IF due_utc = None THEN DueText("no_date", 0, NoClock)
    ELSE IF DateOf(LocalOf(Val(due_utc))) = DateOf(LocalOf(now_t))
    THEN DueText("today", 0, ClockOf(LocalOf(Val(due_utc))))
    ELSE FmtDelta(LocalOf(Val(due_utc)) - LocalOf(now_t))

\* a due date to be shown at the instant now_t
FmtInput(due_utc, now_t) == [op |-> "fmt", due |-> due_utc, now |-> now_t, out |-> None]

\* the instants the list is shown at: local midnight, and a later time of day
FmtNows == {2 * PerDay - LOCAL_OFFSET * PerMinute, 2 * PerDay + PerDay \div 2}

\* due dates that far from the instant the list is shown at
FmtOffsets ==
    {0, 1, 0 - 1, 0 - SubSec, SubSec, PerMinute, 0 - PerMinute,
     PerHour - 1, PerHour, 1 - PerHour, 0 - PerHour,
     PerDay - 1, PerDay, 1 - PerDay, 0 - PerDay, 0 - PerDay - 1,
     PerDay + PerHour, 2 * PerDay, 1 - 2 * PerDay, 0 - 2 * PerDay, 0 - PerDay - PerDay \div 2}

\* the buttons after the task rows: 4 toggles the status, 5 cycles the
\* priority filter, 6 the date filter, 7 refreshes
ButtonAfterRows(kb, ids, k) == kb.buttons[4 * Len(ids) + k]

\* the cursor on_list_nav reads from a token
CursorOf(data) == _ctx_from_kv(_parse_kv(data).kv)

InitCodec ==
    /\ tasks = <<>>
    /\ nextId = 1
    /\ now = 0
    /\ last = NoCall
    /\ BotIdle
    /\ \E s \in StatusCodes, p \in CodecPages, f \in PrioCodes, d \in DateCodes :
          \/ res = CodecInput("tlist", <<>>, 0, 0, s, p, f, d)
          \/ \E a \in ActionKinds, tid \in CodecIds :
                res = CodecInput("tact", a, tid, 0, s, p, f, d)
          \/ \E tid \in CodecIds, k \in 1..Len(SNOOZE_OPTIONS) :
                res = CodecInput("tsnz", <<>>, tid, k, s, p, f, d)
          \/ \E which \in {"f", "d"} : p = 1 /\ res = CycleInput(which, s, f, d)
          \/ \E total \in {0, MaxRows, 2 * PER_PAGE + 1}, ids \in {<<>>, <<1, 2>>} :
                res = FrameInput(ids, s, p, total, f, d)
          \/ \E t \in FmtNows, o \in FmtOffsets, dated \in BOOLEAN :
                /\ p = 1 /\ f = C_A /\ d = C_A /\ s = S_o
                /\ dated \/ o = 0
                /\ res = FmtInput(IF dated THEN Some(t + o) ELSE None, t)
          \/ \E data \in ReceivedTokens, ids \in {<<>>, <<1, MaxCodecId>>} :
                /\ p = 1 /\ f = C_A /\ d = C_A
                /\ res = EmitInput(IF StartsWith(data, P_tlist) THEN "on_list_nav"
                                   ELSE "act_snooze_open",
                                   data, ids, IF s = S_o THEN Len(ids) ELSE MaxRows)

\* the encoders: _join_kv as build_listing_keyboard calls it, and the
\* f-string of _snooze_keyboard
EncodeFields(r) ==
    CASE r.kind = "tlist" -> _join_kv(P_tlist, r.s, r.p, r.f, r.d)
      [] r.kind = "tact" ->
            _join_kv(<<"t", "a", "c", "t", ":">> \o r.action \o <<":">> \o IntToStr(r.tid),
                     r.s, r.p, r.f, r.d)
      [] OTHER ->
            [data |-> _snooze_keyboard(r.tid, r.s, r.p, r.f, r.d)[r.option],
             raised |-> FALSE]

\* the decoders of the handlers: _parse_kv, then _ctx_from_kv and the split
\* of the head
DecodedHead(kind, head) ==
    CASE kind = "tlist" -> [head |-> head, action |-> <<>>, tid |-> None, mins |-> None]
      [] kind = "tact" ->
            [head |-> <<>>, action |-> Split(head, ":", 2)[2], tid |-> TactId(head),
             mins |-> None]
      [] OTHER ->
            [head |-> <<>>, action |-> <<>>,
             tid |-> IF SnoozeArgs(head) = None THEN None
                     ELSE Some(Val(SnoozeArgs(head)).tid),
             mins |-> IF SnoozeArgs(head) = None THEN None
                      ELSE Some(Val(SnoozeArgs(head)).mins)]

DecodeParsed(kind, parsed) ==
    [ctx |-> _ctx_from_kv(parsed.kv), head |-> DecodedHead(kind, parsed.head)]

EncodeToken ==
    /\ res.op = "codec"
    /\ res.token = None
    /\ res' = [res EXCEPT !.token = Some(EncodeFields(res))]
    /\ UNCHANGED <<tasks, nextId, now, last>>
    /\ UNCHANGED botVars

DecodeToken ==
    /\ res.op = "codec"
    /\ res.token # None
    /\ ~Val(res.token).raised
    /\ res.out = None
    /\ res' = [res EXCEPT !.out = Some(DecodeParsed(res.kind, _parse_kv(Val(res.token).data)))]
    /\ UNCHANGED <<tasks, nextId, now, last>>
    /\ UNCHANGED botVars

\* the list is shown at the cursor; its cycle button is pressed and
\* on_list_nav reads the cursor of the button's token
CycleTo(next) ==
    res' = [res EXCEPT !.cur = next,
                       !.visited = Append(@, IF res.which = "f" THEN next.f ELSE next.d)]

PressCycle ==
    /\ res.op = "cycle"
    /\ Len(res.visited) <= (IF res.which = "f" THEN 4 ELSE 5)
    /\ CycleTo(CursorOf(ButtonAfterRows(
           build_listing_keyboard(<<>>, res.cur.s, res.cur.p, PER_PAGE, 0,
                                  res.cur.f, res.cur.d),
           <<>>, IF res.which = "f" THEN 5 ELSE 6)))
    /\ UNCHANGED <<tasks, nextId, now, last>>
    /\ UNCHANGED botVars

\* the cursors of the four buttons build_listing_keyboard puts below the rows
FrameOf(kb, ids) ==
    [raised |-> kb.raised,
     toggle |-> CursorOf(ButtonAfterRows(kb, ids, 4)),
     prio |-> CursorOf(ButtonAfterRows(kb, ids, 5)),
     date |-> CursorOf(ButtonAfterRows(kb, ids, 6)),
     refresh |-> CursorOf(ButtonAfterRows(kb, ids, 7))]

RenderFilters ==
    /\ res.op = "frame"
    /\ res.out = None
    /\ res' = [res EXCEPT !.out =
                  Some(FrameOf(build_listing_keyboard(res.ids, res.s, res.p, PER_PAGE,
                                                      res.total, res.f, res.d),
                               res.ids))]
    /\ UNCHANGED <<tasks, nextId, now, last>>
    /\ UNCHANGED botVars

\* the keyboard the handler sends for the token: on_list_nav renders the
\* list (build_listing_keyboard), act_snooze_open the snooze menu
EmittedBy(h, ids, total, head, k) ==
    IF h = "on_list_nav"
    THEN build_listing_keyboard(ids, k.s, k.p, PER_PAGE, total, k.f, k.d)
    ELSE [buttons |-> _snooze_keyboard(Val(TactId(head)), k.s, k.p, k.f, k.d),
          raised |-> FALSE]

EmitKeyboard ==
    /\ res.op = "emit"
    /\ res.out = None
    /\ res' = [res EXCEPT !.out =
                  Some(EmittedBy(res.handler, res.ids, res.total,
                                 _parse_kv(res.data).head, CursorOf(res.data)))]
    /\ UNCHANGED <<tasks, nextId, now, last>>
    /\ UNCHANGED botVars

\* the due date of a row is shown
FormatDue ==
    /\ res.op = "fmt"
    /\ res.out = None
    /\ res' = [res EXCEPT !.out = Some(_fmt_due_local(res.due, res.now))]
    /\ UNCHANGED <<tasks, nextId, now, last>>
    /\ UNCHANGED botVars

NextCodec ==
    EncodeToken \/ DecodeToken \/ PressCycle \/ RenderFilters \/ EmitKeyboard \/ FormatDue

SpecCodec == InitCodec /\ [][NextCodec]_vars

Encoded == res.op = "codec" /\ res.token # None
Decoded == res.op = "codec" /\ res.out # None

\* C11 -- Codec round-trip: a token encoded from a cursor (status, page,
\* priority filter, date filter) and, for a row action, an action kind and a
\* task id, or for a snooze, a task id and minutes, is encoded without an
\* error and decodes to exactly the fields it was encoded from.
C11_CodecRoundTrip ==
    /\ Encoded => ~Val(res.token).raised
    /\ Decoded =>
          /\ Val(res.out).ctx = [s |-> res.s, p |-> res.p, f |-> res.f, d |-> res.d]
          /\ res.kind = "tlist" => Val(res.out).head.head = P_tlist
          /\ res.kind = "tact" =>
                /\ Val(res.out).head.action = res.action
                /\ Val(res.out).head.tid = Some(res.tid)
          /\ res.kind = "tsnz" =>
                /\ Val(res.out).head.tid = Some(res.tid)
                /\ Val(res.out).head.mins = Some(SNOOZE_OPTIONS[res.option])

\* C11 witness: the snooze token of task 12 for one week at page 10 of the
\* done list, filters L and N, was decoded to those fields.
C11_Witness ==
    /\ Decoded
    /\ res.kind = "tsnz" /\ res.tid = MaxCodecId /\ res.option = 5
    /\ res.s = S_d /\ res.p = MaxCodecPage /\ res.f = C_L /\ res.d = C_N
    /\ Val(res.out).head.mins = Some(10080)
    /\ Val(res.out).ctx.p = MaxCodecPage

\* --- the length of the tokens sent
Emitted == res.op = "emit" /\ res.out # None /\ ~Val(res.out).raised

\* C28: every token of a keyboard the listing handlers send (navigation,
\* task actions, snooze-apply, snooze-cancel), at whatever cursor the
\* received token asked for, has at most 64 characters and carries the
\* date filter of the cursor in full (or, on the date-cycle button, its
\* successor); a keyboard with a longer token is not sent.
C28_EncodedLengthGuard ==
    Emitted =>
        \A i \in DOMAIN Val(res.out).buttons :
            /\ Len(Val(res.out).buttons[i]) <= CB_MAX
            /\ Val(res.out).buttons[i] # D_noop_listing =>
                  CursorOf(Val(res.out).buttons[i]).d
                      \in {CursorOf(res.data).d, _DATE_CYCLE(CursorOf(res.data).d)}

\* --- the due date as the list shows it
Formatted == res.op = "fmt" /\ res.out # None

\* the hours, counted down, between two instants a apart
FullHours(a) == a \div PerHour

\* C29: no due date shows as the no-date label; a due date on the local
\* calendar date of now shows as today HH:MM; otherwise a due date before
\* now shows as N days overdue, N the whole elapsed hours divided by 24
\* counted down, when 24 hours or more have elapsed, and as N hours overdue,
\* N the whole elapsed hours, when fewer; a due date not before now shows
\* as in N days or in N hours by the same rule.
C29_DueHumanization ==
    Formatted =>
        IF res.due = None THEN Val(res.out).form = "no_date"
        ELSE IF DateOf(LocalOf(Val(res.due))) = DateOf(LocalOf(res.now))
        THEN /\ Val(res.out).form = "today"
             /\ Val(res.out).clock = ClockOf(LocalOf(Val(res.due)))
        ELSE IF Val(res.due) < res.now
        THEN IF FullHours(res.now - Val(res.due)) >= HOURS_PER_DAY
             THEN /\ Val(res.out).form = "overdue_days"
                  /\ Val(res.out).n = FullHours(res.now - Val(res.due)) \div HOURS_PER_DAY
             ELSE /\ Val(res.out).form = "overdue_hours"
                  /\ Val(res.out).n = FullHours(res.now - Val(res.due))
        ELSE IF FullHours(Val(res.due) - res.now) >= HOURS_PER_DAY
             THEN /\ Val(res.out).form = "in_days"
                  /\ Val(res.out).n = FullHours(Val(res.due) - res.now) \div HOURS_PER_DAY
             ELSE /\ Val(res.out).form = "in_hours"
                  /\ Val(res.out).n = FullHours(Val(res.due) - res.now)

PrioOrder == {<<C_A, C_H>>, <<C_H, C_M>>, <<C_M, C_L>>, <<C_L, C_A>>}
DateOrder == {<<C_A, C_T>>, <<C_T, C_W>>, <<C_W, C_O>>, <<C_O, C_N>>, <<C_N, C_A>>}

\* the values visited follow `order`, and after n presses the start value
\* is back and the n values before it are all of `codes`
CycleClosed(visited, order, codes, n) ==
    /\ \A i \in 1..(Len(visited) - 1) : <<visited[i], visited[i + 1]>> \in order
    /\ Len(visited) = n + 1 =>
          /\ visited[n + 1] = visited[1]
          /\ {visited[i] : i \in 1..n} = codes

\* C12 -- Filter-cycle totality: pressing the priority-cycle button goes
\* A->H->M->L->A and is back at the start after 4 presses having shown all
\* four values; pressing the date-cycle button goes A->T->W->O->N->A and is
\* back at the start after 5 presses.
C12_FilterCycle ==
    res.op = "cycle" =>
        IF res.which = "f" THEN CycleClosed(res.visited, PrioOrder, PrioCodes, 4)
        ELSE CycleClosed(res.visited, DateOrder, DateCodes, 5)

\* C12 witness: the date filter was cycled five times starting from W.
C12_Witness ==
    /\ res.op = "cycle" /\ res.which = "d"
    /\ res.visited = <<C_W, C_O, C_N, C_A, C_T, C_W>>

\* C13 -- Cursor frame of the filter buttons: of a rendered keyboard, the
\* status toggle changes only the status, the priority cycle only the
\* priority filter, the date cycle only the date filter, each with page 1;
\* the refresh button carries the status, the clamped page and the filters
\* of the rendering.
C13_FilterButtonsFrame ==
    (res.op = "frame" /\ res.out # None) =>
        LET o == Val(res.out)
        IN /\ ~o.raised
           /\ o.toggle = [s |-> IF res.s = S_o THEN S_d ELSE S_o, p |-> 1,
                          f |-> res.f, d |-> res.d]
           /\ o.prio.f # res.f
           /\ [o.prio EXCEPT !.f = res.f] = [s |-> res.s, p |-> 1, f |-> res.f, d |-> res.d]
           /\ o.date.d # res.d
           /\ [o.date EXCEPT !.d = res.d] = [s |-> res.s, p |-> 1, f |-> res.f, d |-> res.d]
           /\ o.refresh = [s |-> res.s, p |-> _clamp_page(res.p, PER_PAGE, res.total),
                           f |-> res.f, d |-> res.d]

\* C13 witness: page 10 of 11 done tasks was asked for with two rows shown;
\* the refresh button carries page 3, the three filter buttons page 1.
C13_Witness ==
    /\ res.op = "frame" /\ res.out # None
    /\ res.ids = <<1, 2>> /\ res.s = S_d /\ res.p = MaxCodecPage
    /\ res.total = 2 * PER_PAGE + 1
    /\ Val(res.out).refresh.p = 3
    /\ Val(res.out).prio.p = 1 /\ Val(res.out).date.p = 1 /\ Val(res.out).toggle.p = 1
    /\ Val(res.out).toggle.s = S_o

\* ------------------------------------------------------------------------
\* Specification SpecOwn: a chat acts on task ids while another user owns a
\* task.  Every update is run twice, on the tables as they are and on the
\* tables without the other user's task, and both outcomes are kept.
\* ------------------------------------------------------------------------
\* the caller has at most MaxOwn tasks
MaxOwn == 1

\* the chat that acts and the other user: telegram id and users.id
Caller == [tg |-> 1, id |-> 1]
Other == [tg |-> 2, id |-> 2]

\* task ids: the caller's (if any) and the other user's
OwnIds == 1..MaxOwn
FOREIGN_ID == MaxOwn + 1

OwnRowInputs ==
    {NewTask(Caller.id, <<"a", "b", "c">>, due, "HIGH", 0) :
        due \in {None, Some([wall |-> 5, off |-> None])}}
    \cup {[NewTask(Caller.id, <<"a", "b", "c">>, None, "HIGH", 0)
              EXCEPT !.is_done = TRUE, !.done_at = Some(0)]}

ForeignRow == NewTask(Other.id, <<"x", "y", "z">>, None, "LOW", 0)

InitOwn ==
    /\ \E own \in SUBSET OwnIds : \E rows \in [own -> OwnRowInputs] :
          tasks = [i \in own \cup {FOREIGN_ID} |->
                      IF i \in own THEN rows[i] ELSE ForeignRow]
    /\ nextId = FOREIGN_ID + 1
    /\ now = 0
    /\ last = NoCall
    /\ res = NoRes
    /\ users = [tg \in {Caller.tg, Other.tg} |->
                 [id |-> IF tg = Caller.tg THEN Caller.id ELSE Other.id]]
    /\ fsm = [u \in TgUsers |-> NoFsm]
    /\ out = NoOut
    /\ sessions = <<>>

\* the tokens of the actions on task id (as a str): the listing actions and
\* the handlers of mark_done.py and delete_task.py
OwnTokens(id) ==
    {AtCursor(pre \o id) : pre \in {P_tact_done, P_tact_undo, P_tact_del,
                                     P_tact_edit, P_tact_snz}}
    \cup {AtCursor(P_tsnz \o id \o <<":", "1", "5">>),
          _join_kv(P_tact_edit \o id, S_d, 1, C_A, C_A).data,
          P_done \o id, P_delete \o id, P_confirm_delete \o id, D_cancel_delete}

OwnMessageTexts == {<<"n", "e", "w">>, <<"a", "b">>}

\* the tables without the row of task id
WithoutRow(ts, id) == [i \in DOMAIN ts \ {id} |-> ts[i]]

\* the run starts on tables in which task id does not exist
Absent(c, id) ==
    [c EXCEPT !.db.tasks = WithoutRow(@, id), !.snap.tasks = WithoutRow(@, id)]

\* what the chat sees of a run: its chat calls, in order, with what they
\* carried
IsChatEvent(ev) == ev.k \in ChatKinds
Shown(ev) ==
    [k |-> ev.k, ok |-> ev.ok, text |-> ev.text, page |-> ev.page, rows |-> ev.rows,
     total |-> ev.total]
Visible(tr) ==
    LET chat == SelectSeq(tr, IsChatEvent)
    IN [i \in DOMAIN chat |-> Shown(chat[i])]

RowsOf(ts, user_id) == [i \in {j \in DOMAIN ts : ts[j].user_id = user_id} |-> ts[i]]

\* the outcome of a run for the caller
Outcome(c) ==
    [seen |-> Visible(c.trace), own |-> RowsOf(c.db.tasks, Caller.id), fsm |-> c.fsm,
     escaped |-> c.exc]

\* the update was run on both tables (a: as they are, b: without the other
\* user's task); the state goes on from run a
OwnHandled(h, kind, target, data, a, b) ==
    /\ \A i \in DOMAIN a.db.tasks :
          a.db.tasks[i].due_date # tasks[i].due_date
              => Val(a.db.tasks[i].due_date) <= MaxBotDue
    /\ tasks' = a.db.tasks
    /\ users' = a.db.users
    /\ nextId' = a.db.nextId
    /\ fsm' = [fsm EXCEPT ![Caller.tg] = a.fsm]
    /\ out' = [handler |-> h, kind |-> kind, tg |-> Caller.tg, data |-> data,
               trace |-> a.trace, escaped |-> a.exc, again |-> FALSE]
    /\ res' = [op |-> "own", out |-> Some([target |-> target, other |-> Outcome(a),
                                           missing |-> Outcome(b)])]
    /\ UNCHANGED <<now, last, sessions>>

OwnCallbackRouted(h, target, data) ==
    /\ h \in CallbackHandlers
    /\ OwnHandled(h, "callback", target, data,
                  RunCallback(h, NewCtx(Caller.tg, 0, <<"id_asc", "id_asc">>), data),
                  RunCallback(h, Absent(NewCtx(Caller.tg, 0, <<"id_asc", "id_asc">>),
                                        FOREIGN_ID), data))

OwnMessageRouted(h, target, text) ==
    /\ h \in MessageHandlers
    /\ OwnHandled(h, "message", target, text,
                  RunMessage(h, NewCtx(Caller.tg, 0, <<"id_asc", "id_asc">>), text),
                  RunMessage(h, Absent(NewCtx(Caller.tg, 0, <<"id_asc", "id_asc">>),
                                       FOREIGN_ID), text))

\* a callback query of the caller on task id
OwnCallback(id, data) ==
    /\ out = NoOut
    /\ OwnCallbackRouted(RouteCallback(data), id, data)

\* a text message of the caller; its target is the task of the edit session
OwnMessage(text) ==
    /\ out = NoOut
    /\ OwnMessageRouted(RouteMessage(text, fsm[Caller.tg].state),
                        DataGet(fsm[Caller.tg].data, "task_id", 0), text)

\* the dispatcher is done with the update
OwnDone ==
    /\ out # NoOut
    /\ out' = NoOut
    /\ UNCHANGED <<tasks, nextId, now, last, res, users, fsm, sessions>>

NextOwn ==
    \/ \E id \in OwnIds \cup {FOREIGN_ID} : \E data \in OwnTokens(IntToStr(id)) :
          OwnCallback(id, data)
    \/ \E text \in OwnMessageTexts : OwnMessage(text)
    \/ OwnDone

SpecOwn == InitOwn /\ [][NextOwn]_vars

\* the listing actions of the claim and the handlers that take their tokens
C19_Handlers ==
    {"act_done", "act_undo", "act_delete", "confirm_delete", "act_snooze_apply",
     "act_edit_save", "handle_mark_task_done", "handle_confirm_delete"}

\* the update just handled was an action on the other user's task
OnForeignTask ==
    /\ out.handler \in C19_Handlers
    /\ res.op = "own"
    /\ Val(res.out).target = FOREIGN_ID

\* C19: for an action (done, undo, delete, snooze-apply, edit-save) of a
\* caller on a task id that belongs to another user, what the caller is
\* shown (the notice texts and the rendered list) and the caller's own
\* tasks are the same as when that task id does not exist.
C19_NotOwnedAsNotFound ==
    OnForeignTask => Val(res.out).other = Val(res.out).missing

\* a done action on the other user's task was answered with the failure
\* notice and the list of the caller's own task
C19_Witness ==
    /\ OnForeignTask
    /\ out.handler = "act_done"
    /\ Told(out.trace, "error")
    /\ \E i \in DOMAIN out.trace :
          out.trace[i].text = "list" /\ out.trace[i].rows # <<>>
    /\ FOREIGN_ID \in DOMAIN tasks /\ tasks[FOREIGN_ID] = ForeignRow

\* ------------------------------------------------------------------------
\* Specification SpecUser: create_or_update_user called from sessions that
\* may overlap.  A call reads the row of the telegram id (UserSelect), then
\* inserts or updates (UserWrite); writes are seen by every session at once.
\* `users` maps users.id to the whole row.
\* ------------------------------------------------------------------------
MaxSessions == 2
MaxTgIds == 2

NAME_MAX == 100
USERNAME_MAX == 50
LANG_MAX == 10

\* an Optional[str] is truthy when it is a non-empty str
Truthy(o) == o # None /\ Len(Val(o)) > 0

\* (x or "")[:n] if x else None
StoredStr(o, n) == IF Truthy(o) THEN Some(Truncate(Val(o), n)) ELSE None

\* (language or "fa")[:10]
StoredLang(o) == Some(Truncate(IF Truthy(o) THEN Val(o) ELSE <<"f", "a">>, LANG_MAX))

\* what the chats send as name, handle and language; a full name of first
\* and last name can be longer than the column
LongName == [i \in 1..(NAME_MAX + 1) |-> "n"]

Profile(full_name, username, language) ==
    [full_name |-> full_name, username |-> username, language |-> language]

Profiles ==
    {Profile(Some(<<"a", "b">>), Some(<<"u">>), Some(<<"e", "n">>)),
     Profile(Some(<<"a", "b">>), None, None),
     Profile(Some(LongName), Some(<<"u">>), Some(<<"e", "n">>))}

\* User(telegram_id=..., ...) flushed: the row inserted.  `given` is no
\* column: it keeps what the call that wrote the row last was given, when
\* that call had read the row as it was
NewUser(id, telegram_id, p, t) ==
    [id |-> id, telegram_id |-> telegram_id,
     full_name |-> StoredStr(p.full_name, NAME_MAX),
     username |-> StoredStr(p.username, USERNAME_MAX),
     language |-> StoredLang(p.language),
     created_at |-> t, updated_at |-> t, given |-> Some(p)]

\* the else branch: the attributes the call sets on the object it read
NameChanged(seen, p) == seen.full_name # p.full_name
HandleChanged(seen, p) == seen.username # p.username
LangChanged(seen, p) == Truthy(p.language) /\ seen.language # p.language

UserChanges(seen, row, p, t) ==
    [col \in {c \in {"full_name", "username", "language", "updated_at", "given"} :
                CASE c = "full_name" -> NameChanged(seen, p)
                  [] c = "username" -> HandleChanged(seen, p)
                  [] c = "language" -> LangChanged(seen, p)
                  [] OTHER -> NameChanged(seen, p) \/ HandleChanged(seen, p)
                                 \/ LangChanged(seen, p)} |->
        CASE col = "full_name" -> StoredStr(p.full_name, NAME_MAX)
          [] col = "username" -> StoredStr(p.username, USERNAME_MAX)
          [] col = "language" -> Some(Truncate(Val(p.language), LANG_MAX))
          [] col = "given" -> IF seen = row THEN Some(p) ELSE None
          [] OTHER -> t]

\* UPDATE users SET <changes> WHERE id = row.id
UserUpdated(row, changes) ==
    [col \in DOMAIN row |-> IF col \in DOMAIN changes THEN changes[col] ELSE row[col]]

\* select(User).where(User.telegram_id == telegram_id): the rows found
UsersOfTg(us, telegram_id) == {i \in DOMAIN us : us[i].telegram_id = telegram_id}

\* session k starts create_or_update_user and reads the row, if any
UserSelect(k, telegram_id, p) ==
    /\ k \notin DOMAIN sessions
    /\ Cardinality(UsersOfTg(users, telegram_id)) <= 1
    /\ sessions' =
          [j \in DOMAIN sessions \cup {k} |->
              IF j = k
              THEN [telegram_id |-> telegram_id, profile |-> p,
                    seen |-> IF UsersOfTg(users, telegram_id) = {} THEN None
                             ELSE Some(users[CHOOSE i \in UsersOfTg(users, telegram_id) : TRUE])]
              ELSE sessions[j]]
    /\ UNCHANGED <<tasks, nextId, now, last, res, users, fsm, out>>

\* the call of session k ended: it returned the row with this id, or raised
UserCallEnds(k, id, raised) ==
    /\ sessions' = [j \in DOMAIN sessions \ {k} |-> sessions[j]]
    /\ last' = Raise(Call("create_or_update_user", sessions[k].telegram_id, id,
                          Some(sessions[k].profile), ~raised), raised)
    /\ UNCHANGED <<tasks, nextId, now, res, fsm, out>>

\* session k flushes.  INSERT: the unique index on telegram_id refuses a
\* second row (IntegrityError); UPDATE: the changed attributes are written
UserWrite(k) ==
    /\ k \in DOMAIN sessions
    /\ IF sessions[k].seen = None
       THEN IF UsersOfTg(users, sessions[k].telegram_id) # {}
            THEN /\ users' = users
                 /\ UserCallEnds(k, 0, TRUE)
            ELSE /\ users' =
                       [i \in DOMAIN users \cup {Cardinality(DOMAIN users) + 1} |->
                           IF i \in DOMAIN users THEN users[i]
                           ELSE NewUser(i, sessions[k].telegram_id, sessions[k].profile, now)]
                 /\ UserCallEnds(k, Cardinality(DOMAIN users) + 1, FALSE)
       ELSE /\ users' =
                  [users EXCEPT ![Val(sessions[k].seen).id] =
                      UserUpdated(@, UserChanges(Val(sessions[k].seen), @,
                                                 sessions[k].profile, now))]
            /\ UserCallEnds(k, Val(sessions[k].seen).id, FALSE)

NextUser ==
    \/ Tick
    \/ \E k \in 1..MaxSessions, telegram_id \in 1..MaxTgIds, p \in Profiles :
          UserSelect(k, telegram_id, p)
    \/ \E k \in 1..MaxSessions : UserWrite(k)

SpecUser == Init /\ [][NextUser]_vars

\* the step ends the call of a session, which returned
UserReturned ==
    /\ \E k \in DOMAIN sessions : k \notin DOMAIN sessions'
    /\ ~last'.raised

\* ... and that call repeats the one that wrote the row last: it was given
\* the same name, handle and language, and both read the row as it was
UserRepeated ==
    /\ UserReturned
    /\ \E k \in DOMAIN sessions :
          /\ k \notin DOMAIN sessions'
          /\ sessions[k].seen # None
          /\ sessions[k].seen = Some(users[Val(sessions[k].seen).id])
          /\ Val(sessions[k].seen).given = Some(sessions[k].profile)

\* C23: create_or_update_user keeps at most one row per telegram_id, every
\* call that returns gives the id of that row (the same id as any call
\* before it for this telegram_id), no call removes a row, and a call that
\* repeats the one that wrote the row, with the same name, handle and
\* language, changes no field of the row.
C23_UserUpsertIdempotent ==
    [][/\ \A tg \in 1..MaxTgIds : Cardinality(UsersOfTg(users', tg)) <= 1
       /\ \A i \in DOMAIN users : i \in DOMAIN users'
       /\ UserReturned =>
             /\ UsersOfTg(users', last'.user_id) = {last'.task_id}
             /\ UsersOfTg(users, last'.user_id) \subseteq {last'.task_id}
       /\ UserRepeated => users' = users]_vars

\* ------------------------------------------------------------------------
\* Specification SpecSave: the last step of an add-task flow.  The callback
\* "priority:..." is delivered up to MaxRuns times to the chat whose session
\* waits for the priority; the dispatcher runs every delivery as a task of
\* its own (start_polling, no events isolation), so the runs of
\* handle_priority_selection interleave at their awaits.
\* sessions[k]: the run k, where it is (pc) and the data it read.
\* ------------------------------------------------------------------------
MaxRuns == 2

\* the chat the flow runs in
FirstOf(S) == CHOOSE i \in S : \A j \in S : i <= j

SaveChat == FirstOf(TgUsers)

\* the callback delivered, and how many times so far
SaveInput(data) == [op |-> "save", data |-> data, delivered |-> 0, finished |-> 0]

InitSave ==
    /\ tasks = <<>>
    /\ nextId = 1
    /\ now = 0
    /\ last = NoCall
    /\ users = <<>>
    /\ out = NoOut
    /\ sessions = <<>>
    /\ \E content \in {<<"a", "b", "c">>, <<"a", "b", " ", "c">>},
          due \in {None, _to_utc(LOCAL_OFFSET + 1)},
          data \in {P_priority \o <<"l", "o", "w">>, P_priority \o <<"h", "i", "g", "h">>,
                    P_priority \o <<"x">>} :
          /\ fsm = [u \in TgUsers |->
                       IF u = SaveChat
                       THEN [state |-> ADD_PRIORITY,
                             data |-> [content |-> content, due_date |-> due]]
                       ELSE NoFsm]
          /\ res = SaveInput(data)

RunAt(k, pc) == k \in DOMAIN sessions /\ sessions[k].pc = pc

RunTo(k, pc) == sessions' = [sessions EXCEPT ![k].pc = pc]

\* the run k ends
RunEnds(k) ==
    /\ sessions' = [j \in DOMAIN sessions \ {k} |-> sessions[j]]
    /\ res' = [res EXCEPT !.finished = @ + 1]

\* the callback is delivered: handle_priority_selection starts
SaveDelivered(k) ==
    /\ res.op = "save"
    /\ res.delivered < MaxRuns
    /\ k = res.delivered + 1
    /\ sessions' = [j \in DOMAIN sessions \cup {k} |->
                       IF j = k THEN [pc |-> "parse", data |-> <<>>] ELSE sessions[j]]
    /\ res' = [res EXCEPT !.delivered = @ + 1]
    /\ UNCHANGED <<tasks, nextId, now, last, users, fsm, out>>

\* priority = parse_priority_from_callback(...); None: answered, return;
\* else await state.update_data(priority=priority.name)
SaveParse(k) ==
    /\ RunAt(k, "parse")
    /\ IF parse_priority_from_callback(res.data, P_priority) = None
       THEN /\ RunEnds(k)
            /\ fsm' = fsm
       ELSE /\ RunTo(k, "answer")
            /\ res' = res
            /\ fsm' = [fsm EXCEPT ![SaveChat].data =
                          [f \in DOMAIN @ \cup {"priority"} |->
                              IF f = "priority"
                              THEN Val(parse_priority_from_callback(res.data, P_priority))
                              ELSE @[f]]]
    /\ UNCHANGED <<tasks, nextId, now, last, users, out>>

\* await callback.answer(); await callback.message.answer(...)
SaveAnswer(k) ==
    /\ RunAt(k, "answer")
    /\ RunTo(k, "get_data")
    /\ UNCHANGED <<tasks, nextId, now, last, res, users, fsm, out>>

\* _save_task: data = await state.get_data()
SaveGetData(k) ==
    /\ RunAt(k, "get_data")
    /\ sessions' = [sessions EXCEPT ![k] =
           [pc |-> IF Len(DataGet(fsm[SaveChat].data, "content", <<>>)) = 0
                   THEN "no_content" ELSE "save",
            data |-> fsm[SaveChat].data]]
    /\ UNCHANGED <<tasks, nextId, now, last, res, users, fsm, out>>

\* if not content: the error text is sent; await state.clear(); return
SaveNoContent(k) ==
    /\ RunAt(k, "no_content")
    /\ RunEnds(k)
    /\ fsm' = [fsm EXCEPT ![SaveChat] = NoFsm]
    /\ UNCHANGED <<tasks, nextId, now, last, users, out>>

\* the transaction: create_or_update_user, create_task, the success text,
\* commit
SaveCreate(k) ==
    /\ RunAt(k, "save")
    /\ RunTo(k, "clear")
    /\ users' = [u \in DOMAIN users \cup {SaveChat} |->
                    IF u = SaveChat THEN [id |-> UserIdOf(users, SaveChat)] ELSE users[u]]
    /\ tasks' = create_task(tasks, nextId, UserIdOf(users, SaveChat),
                    sessions[k].data.content, sessions[k].data.due_date,
                    SavePriority(DataGet(sessions[k].data, "priority", "MEDIUM")), now).tbl
    /\ nextId' = nextId + 1
    /\ last' = Call("create_task", UserIdOf(users, SaveChat), nextId,
                    Some(sessions[k].data.content), TRUE)
    /\ UNCHANGED <<now, res, fsm, out>>

\* await state.clear()
SaveClear(k) ==
    /\ RunAt(k, "clear")
    /\ RunTo(k, "menu")
    /\ fsm' = [fsm EXCEPT ![SaveChat] = NoFsm]
    /\ UNCHANGED <<tasks, nextId, now, last, res, users, out>>

\* the main menu is sent; the handler returns
SaveMenu(k) ==
    /\ RunAt(k, "menu")
    /\ RunEnds(k)
    /\ UNCHANGED <<tasks, nextId, now, last, users, fsm, out>>

NextSave ==
    \/ \E k \in 1..MaxRuns : SaveDelivered(k)
    \/ \E k \in 1..MaxRuns : SaveParse(k)
    \/ \E k \in 1..MaxRuns : SaveAnswer(k)
    \/ \E k \in 1..MaxRuns : SaveGetData(k)
    \/ \E k \in 1..MaxRuns : SaveNoContent(k)
    \/ \E k \in 1..MaxRuns : SaveCreate(k)
    \/ \E k \in 1..MaxRuns : SaveClear(k)
    \/ \E k \in 1..MaxRuns : SaveMenu(k)

SpecSave == InitSave /\ [][NextSave]_vars

\* C31: however often the "priority:" callback that ends an add-task flow is
\* delivered, and however the runs interleave, the flow stores at most one
\* task, and exactly one once a run that was given a valid priority is done.
C31_OneTaskPerFlow ==
    res.op = "save" =>
        /\ Cardinality(DOMAIN tasks) <= 1
        /\ (res.finished > 0 /\ parse_priority_from_callback(res.data, P_priority) # None)
              => Cardinality(DOMAIN tasks) = 1

\* ------------------------------------------------------------------------
\* Specification SpecRace: the repository called from several database
\* sessions on the tasks of one user.  snooze_task_by_id is two statements,
\* the SELECT of the row and the UPDATE with the due date computed from what
\* was read; statements of other sessions run between them.  The other calls
\* are one statement each.
\* sessions[k]: the snooze call of session k between its two statements.
\* res: what the behaviour has done so far (no part of the program's state):
\*   rowid     the primary key is a bare INTEGER PRIMARY KEY of SQLite, which
\*             gives a new row the largest key in use plus one (models.py
\*             declares no sqlite_autoincrement); otherwise a sequence
\*   deleted   the ids for which delete_task_by_id returned True
\*   snoozes   the snooze calls started
\*   applied, expect   the snooze calls of RaceTask that returned True, and
\*             the due date they add up to
\* ------------------------------------------------------------------------
MaxSnoozes == 2

\* the caller, and the first key of `tasks`
RaceUser == FirstOf(Users)

RaceTask == FirstOf(1..MaxTasks)

RaceIds == {RaceTask}

RaceDeltas == {1, 2}

InitRace ==
    /\ now = 0
    /\ last = NoCall
    /\ BotIdle
    /\ nextId = RaceTask + 1
    /\ \E due \in {None, Some([wall |-> 1, off |-> None])}, rowid \in BOOLEAN :
          /\ tasks = create_task(<<>>, RaceTask, RaceUser, <<"a", "b", "c">>, due,
                                 "MEDIUM", 0).tbl
          /\ res = [op |-> "race", rowid |-> rowid, deleted |-> {}, snoozes |-> 0,
                    applied |-> 0, expect |-> None]

\* the key of the next row inserted into `tasks`
LargestId(ts) == IF DOMAIN ts = {} THEN 0 ELSE CHOOSE i \in DOMAIN ts : \A j \in DOMAIN ts : j <= i

NewTaskId(ts, nid, rowid) == IF rowid THEN LargestId(ts) + 1 ELSE nid

RaceCreate(content) ==
    /\ nextId <= MaxTasks + 1
    /\ tasks' = create_task(tasks, NewTaskId(tasks, nextId, res.rowid), RaceUser, content,
                            None, "MEDIUM", _utcnow).tbl
    /\ last' = Call("create_task", RaceUser, NewTaskId(tasks, nextId, res.rowid),
                    Some(content), TRUE)
    /\ nextId' = nextId + 1
    /\ UNCHANGED <<now, res>>
    /\ UNCHANGED botVars

RaceDelete(task_id) ==
    /\ tasks' = delete_task_by_id(tasks, RaceUser, task_id).tbl
    /\ last' = Call("delete_task_by_id", RaceUser, task_id, None,
                    delete_task_by_id(tasks, RaceUser, task_id).ret)
    /\ res' = IF delete_task_by_id(tasks, RaceUser, task_id).ret
              THEN [res EXCEPT !.deleted = @ \cup {task_id}] ELSE res
    /\ UNCHANGED <<nextId, now>>
    /\ UNCHANGED botVars

RaceSetDone(task_id, done) ==
    /\ tasks' = set_task_done(tasks, RaceUser, task_id, done, _utcnow).tbl
    /\ last' = Call("set_task_done", RaceUser, task_id, Some(done),
                    set_task_done(tasks, RaceUser, task_id, done, _utcnow).ret)
    /\ UNCHANGED <<nextId, now, res>>
    /\ UNCHANGED botVars

RaceUpdateContent(task_id, new_content) ==
    /\ tasks' = update_task_content(tasks, RaceUser, task_id, new_content, _utcnow).tbl
    /\ last' = Call("update_task_content", RaceUser, task_id, Some(new_content),
                    update_task_content(tasks, RaceUser, task_id, new_content, _utcnow).ret)
    /\ UNCHANGED <<nextId, now, res>>
    /\ UNCHANGED botVars

\* now = _utcnow(); task = select(Task).where(id, user_id); not task: False
SnoozeSelect(k, task_id, delta_minutes) ==
    /\ k \notin DOMAIN sessions
    /\ res.snoozes < MaxSnoozes
    /\ res' = [res EXCEPT !.snoozes = @ + 1]
    /\ IF WhereIdUser(tasks, task_id, RaceUser)
       THEN /\ sessions' = [j \in DOMAIN sessions \cup {k} |->
                               IF j = k
                               THEN [task_id |-> task_id, delta |-> delta_minutes,
                                     t |-> _utcnow, seen |-> tasks[task_id]]
                               ELSE sessions[j]]
            /\ last' = last
       ELSE /\ sessions' = sessions
            /\ last' = Call("snooze_task_by_id", RaceUser, task_id, Some(delta_minutes), FALSE)
    /\ UNCHANGED <<tasks, nextId, now, users, fsm, out>>

\* the due dates the calls that returned True add up to
SnoozeSum(r, seen, delta_minutes, t) ==
    IF r.applied = 0 THEN Some(SnoozeNewDue(seen, delta_minutes, t))
    ELSE Some(Val(r.expect) + _coerce_positive_int(Some(delta_minutes), SNOOZE_DEFAULT))

\* base = task.due_date or now; update(Task).where(id, user_id).values(
\* due_date=base + minutes, updated_at=now); return rowcount > 0
SnoozeUpdateRow(k, r) ==
    /\ tasks' = r.tbl
    /\ last' = Call("snooze_task_by_id", RaceUser, sessions[k].task_id,
                    Some(sessions[k].delta), r.rowcount > 0)
    /\ res' = IF r.rowcount > 0 /\ sessions[k].task_id = RaceTask
              THEN [res EXCEPT !.applied = @ + 1,
                               !.expect = SnoozeSum(res, sessions[k].seen, sessions[k].delta,
                                                    sessions[k].t)]
              ELSE res
    /\ sessions' = [j \in DOMAIN sessions \ {k} |-> sessions[j]]
    /\ UNCHANGED <<nextId, now, users, fsm, out>>

SnoozeUpdate(k) ==
    /\ k \in DOMAIN sessions
    /\ SnoozeUpdateRow(k, UpdateWhere(tasks, sessions[k].task_id, RaceUser,
           [due_date |-> Some(SnoozeNewDue(sessions[k].seen, sessions[k].delta,
                                           sessions[k].t)),
            updated_at |-> sessions[k].t]))

NextRace ==
    \/ Tick
    \/ \E content \in {<<"x", "y", "z">>} : RaceCreate(content)
    \/ \E task_id \in RaceIds : RaceDelete(task_id)
    \/ \E task_id \in RaceIds, done \in BOOLEAN : RaceSetDone(task_id, done)
    \/ \E task_id \in RaceIds : RaceUpdateContent(task_id, <<"e", "d", "i", "t">>)
    \/ \E k \in 1..MaxSessions, task_id \in RaceIds, d \in RaceDeltas :
          SnoozeSelect(k, task_id, d)
    \/ \E k \in 1..MaxSessions : SnoozeUpdate(k)

SpecRace == InitRace /\ [][NextRace]_vars

\* C32: when two snooze calls for the same task have both returned True, and
\* the task was not deleted, its due date is the base the first of them
\* found plus both deltas, however their statements interleaved.
C32_NoLostSnooze ==
    (res.op = "race" /\ res.applied = 2 /\ res.deleted = {} /\ DOMAIN sessions = {})
        => tasks[RaceTask].due_date = res.expect

\* C38: once delete_task_by_id has returned True for a task id, no later
\* step leaves a row with that id in the table, and every later delete, done,
\* undo, edit or snooze addressed to the id returns False, a snooze that read
\* the row before the delete included.
C38_Addressed ==
    {"delete_task_by_id", "set_task_done", "update_task_content", "snooze_task_by_id"}

C38_DeletionFinal ==
    [][res.op = "race" =>
          /\ \A id \in res.deleted : id \notin DOMAIN tasks'
          /\ (last' # last /\ last'.op \in C38_Addressed /\ last'.task_id \in res.deleted)
                => ~last'.ret]_vars

\* ------------------------------------------------------------------------
\* Specification SpecWalk: the pages of one cursor fetched one after the
\* other, each by a query of its own, on a store that does not change.
\* res.pages: the rows of the pages fetched so far.
\* ------------------------------------------------------------------------
WalkInput(is_done, prio_filter, per_page) ==
    [op |-> "walk", is_done |-> is_done, f |-> prio_filter, d |-> C_A,
     per_page |-> per_page, pages |-> <<>>]

InitWalk ==
    /\ \E n \in 0..MaxRows : \E k \in {0, n \div 3} : \E ties \in BOOLEAN :
          /\ tasks = PageStore(n, k, ties)
          /\ nextId = n + 2
    /\ now = MaxRows + 1
    /\ \E is_done \in {None, Some(FALSE)}, f \in {C_A, C_H}, per_page \in 1..MaxPer :
          res = WalkInput(is_done, f, per_page)
    /\ last = NoCall
    /\ BotIdle

\* the page after those fetched
WalkQuery(page, tb) ==
    get_tasks_paginated(tasks, 1, res.is_done, res.f, res.d, page, res.per_page, now, tb)

\* ceil(total / per_page): the pages there are
WalkPages == Ceil(WalkQuery(1, "id_asc").total, res.per_page)

WalkNext(tb) ==
    /\ res.op = "walk"
    /\ Len(res.pages) < WalkPages
    /\ res' = [res EXCEPT !.pages = Append(@, WalkQuery(Len(res.pages) + 1, tb).rows)]
    /\ UNCHANGED <<tasks, nextId, now, last>>
    /\ UNCHANGED botVars

NextWalk == \E tb \in TieBreaks : WalkNext(tb)

SpecWalk == InitWalk /\ [][NextWalk]_vars

\* C33: when the pages 1..ceil(total / per_page) of a cursor have been
\* fetched from an unchanged store, every task the cursor matches is on
\* exactly one of them, once.
WalkMatches ==
    {i \in DOMAIN tasks : Conds(tasks[i], 1, res.is_done, res.f, res.d, now)}

WalkShown(i) ==
    Cardinality({pk \in {<<p, k>> : p \in DOMAIN res.pages, k \in 1..MaxPer} :
                    pk[2] <= Len(res.pages[pk[1]]) /\ res.pages[pk[1]][pk[2]] = i})

C33_PagesPartition ==
    (res.op = "walk" /\ Len(res.pages) = WalkPages)
        => \A i \in WalkMatches : WalkShown(i) = 1

\* ------------------------------------------------------------------------
\* Specification SpecLast: a chat whose list has more than one page acts on
\* the rows of its last page.  The store holds PER_PAGE + 1 or PER_PAGE + 2
\* tasks of the caller, all open or all done, the oldest on the last page.
\* res: the token pressed last (its verb, task id, status and page).
\* ------------------------------------------------------------------------
LastVerbs == {"done", "undo", "del"}

LastPrefix(verb) ==
    CASE verb = "done" -> P_tact_done
      [] verb = "undo" -> P_tact_undo
      [] OTHER -> P_tact_del

\* the ids of the rows that start on page 2
LastIds == 1..2

LastRow(i, done) ==
    [NewTask(Caller.id, <<"a", "b", "c">>, None, "MEDIUM", i)
        EXCEPT !.is_done = done, !.done_at = IF done THEN Some(i) ELSE None]

InitLast ==
    /\ \E n \in {PER_PAGE + 1, PER_PAGE + 2}, done \in BOOLEAN :
          /\ tasks = [i \in 1..n |-> LastRow(i, done)]
          /\ nextId = n + 1
    /\ now = PER_PAGE + 3
    /\ last = NoCall
    /\ res = NoRes
    /\ users = [tg \in {Caller.tg} |-> [id |-> Caller.id]]
    /\ fsm = [u \in TgUsers |-> NoFsm]
    /\ out = NoOut
    /\ sessions = <<>>

\* the run c of handler h ends the update
LastHandled(h, data, c) ==
    /\ tasks' = c.db.tasks
    /\ users' = c.db.users
    /\ nextId' = c.db.nextId
    /\ fsm' = [fsm EXCEPT ![Caller.tg] = c.fsm]
    /\ out' = [handler |-> h, kind |-> "callback", tg |-> Caller.tg, data |-> data,
               trace |-> c.trace, escaped |-> c.exc, again |-> FALSE]
    /\ UNCHANGED <<now, last, sessions>>

LastRouted(h, data, tb) ==
    /\ h \in CallbackHandlers
    /\ LastHandled(h, data, RunCallback(h, NewCtx(Caller.tg, 0, tb), data))

\* a button of a task row of the list shown at (status, page) is pressed
LastAct(verb, id, status, page, tb) ==
    /\ out = NoOut
    /\ res' = [op |-> "last", verb |-> verb, tid |-> id, s |-> status, p |-> page]
    /\ LastRouted(RouteCallback(_join_kv(LastPrefix(verb) \o IntToStr(id), status, page,
                                         C_A, C_A).data),
                  _join_kv(LastPrefix(verb) \o IntToStr(id), status, page, C_A, C_A).data,
                  tb)

\* the yes button of the confirmation question is pressed
LastConfirm(id, tb) ==
    /\ out = NoOut
    /\ res' = [op |-> "last", verb |-> "confirm", tid |-> id, s |-> S_o, p |-> 1]
    /\ LastRouted(RouteCallback(P_confirm_delete \o IntToStr(id)),
                  P_confirm_delete \o IntToStr(id), tb)

LastDone ==
    /\ out # NoOut
    /\ out' = NoOut
    /\ UNCHANGED <<tasks, nextId, now, last, res, users, fsm, sessions>>

NextLast ==
    \/ \E verb \in LastVerbs, id \in LastIds, status \in {S_o, S_d}, page \in 1..2,
          tb \in TieBreaks \X TieBreaks :
          LastAct(verb, id, status, page, tb)
    \/ \E id \in LastIds, tb \in TieBreaks \X TieBreaks : LastConfirm(id, tb)
    \/ LastDone

SpecLast == InitLast /\ [][NextLast]_vars

\* the rows the cursor (status, no filters) matches, and its page `page`
LastMatches(ts, status) ==
    {i \in DOMAIN ts : Conds(ts[i], Caller.id, StatusIsDone(status), C_A, C_A, now)}

LastPage(ts, status, page) ==
    get_tasks_paginated(ts, Caller.id, StatusIsDone(status), C_A, C_A, page, PER_PAGE,
                        now, "id_asc").rows

\* the action `verb` takes a row out of the list of status `status`
Removes(verb, status) ==
    \/ verb = "del"
    \/ verb = "done" /\ status = S_o
    \/ verb = "undo" /\ status = S_d

\* the button pressed is that of the only row of the shown page p > 1, the
\* last page
OnlyRowOfLastPage(ts, r) ==
    /\ r.op = "last" /\ r.verb \in LastVerbs /\ Removes(r.verb, r.s)
    /\ r.p > 1
    /\ Cardinality(LastMatches(ts, r.s)) = (r.p - 1) * PER_PAGE + 1
    /\ LastPage(ts, r.s, r.p) = <<r.tid>>

\* the run tr rendered the list of ts at page pg, not empty, header and
\* tokens at pg
RenderedAt(tr, ts, status, pg) ==
    \E i \in DOMAIN tr :
        /\ tr[i].k \in {"edit_text", "message.answer"} /\ tr[i].ok /\ tr[i].text = "list"
        /\ tr[i].rows # <<>>
        /\ tr[i].rows = LastPage(ts, status, pg)
        /\ _page_counter(tr[i].page, PER_PAGE, tr[i].total).page = pg
        /\ _clamp_page(tr[i].page, PER_PAGE, tr[i].total) = pg

\* C36: when a done, undo or delete button of the only row of the shown
\* last page p > 1 is handled, the row leaves the list and the list is
\* rendered again at page p - 1, which is not empty, with p - 1 in the header
\* and in the tokens.
C36_NoEmptyPage ==
    [][(out = NoOut /\ OnlyRowOfLastPage(tasks, res')) =>
          /\ res'.tid \notin LastMatches(tasks', res'.s)
          /\ RenderedAt(out'.trace, tasks', res'.s, res'.p - 1)]_vars

\* ------------------------------------------------------------------------
\* The confirmed deletion of delete_task.py (SpecOwn)
\* ------------------------------------------------------------------------
\* the run tr of a "delete:<id>" callback: the question, nothing deleted
LegacyAsked(data, tr, ts, ts1) ==
    /\ ts1 = ts
    /\ ReadOnly(tr)
    /\ delete_extract_task_id(data, <<P_delete>>) # None => Told(tr, "confirm_delete?")

\* the run tr of a "confirm_delete:<id>" callback of the caller
LegacyConfirmed(tid, tr, ts, ts1) ==
    IF tid # None /\ WhereIdUser(ts, Val(tid), Caller.id)
    THEN ts1 = WithoutRow(ts, Val(tid)) /\ Told(tr, "deleted")
    ELSE ts1 = ts /\ (tid # None => Told(tr, "not_found"))

LegacyChecked(data, tr, ts, ts1) ==
    /\ StartsWith(data, P_delete) => LegacyAsked(data, tr, ts, ts1)
    /\ data = D_cancel_delete => ts1 = ts /\ ReadOnly(tr)
    /\ StartsWith(data, P_confirm_delete) =>
          LegacyConfirmed(delete_extract_task_id(data, <<P_confirm_delete>>), tr, ts, ts1)
    /\ DOMAIN ts \ DOMAIN ts1 # {} => StartsWith(data, P_confirm_delete)

\* C37: a "delete:<id>" callback asks for the confirmation and deletes
\* nothing; "cancel_delete" deletes nothing; a task leaves the table only in
\* the run of a "confirm_delete:<id>" callback of its owner; a confirm for a
\* task that is missing or not the caller's deletes nothing and is answered
\* with the not-found notice.
C37_ConfirmedDeletion ==
    [][(out = NoOut /\ out' # NoOut /\ out'.kind = "callback") =>
          LegacyChecked(out'.data, out'.trace, tasks, tasks')]_vars

\* the other user's task was confirmed for deletion by the caller
C37_Witness ==
    /\ out.handler = "handle_confirm_delete"
    /\ out.data = P_confirm_delete \o IntToStr(FOREIGN_ID)
    /\ Told(out.trace, "not_found")
    /\ FOREIGN_ID \in DOMAIN tasks

====
